---- MODULE Spec2Model ----
(***************************************************************************)
(* EntraFlow workflow scheduler: WorkflowManager (registration, cycle      *)
(* check, leveled execution order), BaseAgent.execute (validation, retry   *)
(* with exponential backoff), StateManager (JSON snapshots) and            *)
(* Orchestrator.execute_workflow (levels, namespace, critical failures).   *)
(***************************************************************************)
EXTENDS Integers, Sequences, FiniteSets, TLC

VARIABLES
    config,          \* the workflow configuration handed to register_workflow
    workflows,       \* WorkflowManager.workflows: name -> parsed step list
    regResult,       \* how the last register_workflow call ended
    planResult,      \* what the last get_execution_order call returned or raised
    agents,          \* Orchestrator.agents: name -> the agent's counters
    call,            \* the arguments of the last BaseAgent.execute call
    execResult,      \* how that call ended: result or error, body invocations, waits
    files,           \* StateManager.state_dir: file name -> content
    now,             \* the wall clock, in seconds
    journal,         \* file name -> the state the last save_state call wrote there
    saveResult,      \* how the last save_state call ended
    loaded,          \* what the last load_state call was asked and returned
    pc,              \* where execute_workflow is: idle, running, failing, done
    current_workflow,     \* Orchestrator.current_workflow
    current_workflow_id,  \* Orchestrator.current_workflow_id
    save_state,      \* the save_state argument of execute_workflow
    initial_inputs,  \* the initial_inputs argument of execute_workflow
    execution_order, \* the plan of the run: a list of levels
    level_num,       \* the level the run is in
    agent_index,     \* the position in that level of the next agent
    workflow_state,  \* the workflow_state dictionary of the run
    pending,         \* the exception on its way to the handler of line 216
    outcome,         \* what execute_workflow returned or raised
    trace,           \* one entry per turn of the loop over the agents
    producers,       \* namespace key -> who wrote its value, in which level
    execution_history     \* Orchestrator.execution_history

regVars == <<config, workflows, regResult, planResult>>
execVars == <<agents, call, execResult>>
storeVars == <<files, now, journal, saveResult, loaded>>
runVars == <<pc, current_workflow, current_workflow_id, save_state, initial_inputs,
             execution_order, level_num, agent_index, workflow_state, pending,
             outcome, trace, producers, execution_history>>
vars == <<config, workflows, regResult, planResult, agents, call, execResult,
          files, now, journal, saveResult, loaded,
          pc, current_workflow, current_workflow_id, save_state, initial_inputs,
          execution_order, level_num, agent_index, workflow_state, pending,
          outcome, trace, producers, execution_history>>

(***************************************************************************)
(* Bounds of the model.                                                    *)
(***************************************************************************)
MaxSteps == 4
MaxDeps == 2
MaxEdges == 4
MaxFail == 3       \* failing attempts a task body is scripted for
MaxRetries == 3    \* largest max_retries argument tried
MaxDelay == 2      \* largest retry_delay argument tried
MaxCalls == 2      \* execute calls per behaviour
MaxTime == 1       \* seconds the clock may advance
MaxSaves == 2      \* save_state calls per behaviour
MaxRunSteps == 2   \* steps of a workflow that is run
MaxRunEdges == 1   \* dependencies declared in a workflow that is run
MaxOtherSteps == 1 \* steps another execute_workflow call executes meanwhile

(***************************************************************************)
(* Names.  AgentNames is the pool step names are drawn from, in the order  *)
(* the steps are declared.  The first five are the agents the Orchestrator *)
(* constructs; the others are names no agent is registered under.          *)
(***************************************************************************)
AgentNames == <<"DataFetcher", "Analyzer", "DecisionMaker", "Notifier",
                "Supervisor", "Ghost", "Phantom">>

\* A workflow name, a run id and a file name are lists of segments: the text
\* is the segments joined by "_" (and ".json" after a file name).
Wf == <<"wf">>

WorkflowNames == {Wf}

Min(a, b) == IF a < b THEN a ELSE b

NamePool(n) == {AgentNames[i] : i \in 1..Min(n, Len(AgentNames))}

NameIndex(a) == CHOOSE i \in 1..Len(AgentNames) : AgentNames[i] = a

\* A Python list holding the members of S, in declaration order.
RECURSIVE ListOf(_)
ListOf(S) ==
    IF S = {} THEN <<>>
    ELSE LET first == CHOOSE a \in S : \A b \in S : NameIndex(a) <= NameIndex(b)
         IN <<first>> \o ListOf(S \ {first})

Range(s) == {s[i] : i \in 1..Len(s)}

(***************************************************************************)
(* WorkflowStep and _parse_workflow_config.                                *)
(***************************************************************************)
WorkflowStep(agent_name, inputs, outputs, depends_on) ==
    [agent_name |-> agent_name, inputs |-> inputs, outputs |-> outputs,
     depends_on |-> depends_on]

\* The depends_on declarations a step may carry: at most MaxDeps names of
\* the pool, which may include names no step of the workflow has.
DepChoices == {S \in SUBSET NamePool(MaxSteps) : Cardinality(S) <= MaxDeps}

\* config is a list of n step configurations: step i is named after the
\* i-th name (the last one after the first when dup), the steps after
\* those of acc declare at most budget dependencies in all.
RECURSIVE DrawConfig(_, _, _, _)
DrawConfig(n, budget, dup, acc) ==
    IF Len(acc) = n THEN config = acc
    ELSE \E S \in DepChoices :
            /\ Cardinality(S) <= budget
            /\ LET i == Len(acc) + 1
                   name == IF dup /\ i = n /\ n > 1 THEN AgentNames[1] ELSE AgentNames[i]
               IN DrawConfig(n, budget - Cardinality(S), dup,
                             Append(acc, WorkflowStep(name, <<>>, <<>>, ListOf(S))))

\* The configurations register_workflow is tried on: every dependency
\* graph within the bounds, and the small ones again with a repeated name.
GraphConfigs ==
    \E n \in 0..MaxSteps :
        \/ DrawConfig(n, MaxEdges, FALSE, <<>>)
        \/ DrawConfig(n, 1, TRUE, <<>>)

(***************************************************************************)
(* WorkflowManager._validate_workflow                                      *)
(***************************************************************************)
AgentNameList(steps) == [i \in 1..Len(steps) |-> steps[i].agent_name]

\* next((s for s in steps if s.agent_name == agent_name), None)
HasStep(steps, agent_name) == \E i \in 1..Len(steps) : steps[i].agent_name = agent_name

FindStep(steps, agent_name) ==
    steps[CHOOSE i \in 1..Len(steps) :
            /\ steps[i].agent_name = agent_name
            /\ \A j \in 1..(i - 1) : steps[j].agent_name # agent_name]

\* has_cycle with the two membership tests in the other order.
RECURSIVE has_cycle_visited_first(_, _, _, _), has_cycle_visited_first_deps(_, _, _, _, _)
has_cycle_visited_first(steps, agent_name, path, visited) ==
    IF agent_name \in visited THEN [cycle |-> FALSE, visited |-> visited]
    ELSE IF agent_name \in path THEN [cycle |-> TRUE, visited |-> visited]
    ELSE IF HasStep(steps, agent_name)
         THEN has_cycle_visited_first_deps(steps, FindStep(steps, agent_name).depends_on, 1,
                             path \cup {agent_name}, visited \cup {agent_name})
         ELSE [cycle |-> FALSE, visited |-> visited \cup {agent_name}]

has_cycle_visited_first_deps(steps, deps, i, path, visited) ==
    IF i > Len(deps) THEN [cycle |-> FALSE, visited |-> visited]
    ELSE LET r == has_cycle_visited_first(steps, deps[i], path, visited)
         IN IF r.cycle THEN r
            ELSE has_cycle_visited_first_deps(steps, deps, i + 1, path, r.visited)

\* has_cycle handing the same path set to every dependency (no path.copy()).
RECURSIVE has_cycle_shared(_, _, _, _), has_cycle_shared_deps(_, _, _, _, _)
has_cycle_shared(steps, agent_name, path, visited) ==
    IF agent_name \in path THEN [cycle |-> TRUE, visited |-> visited, path |-> path]
    ELSE IF agent_name \in visited THEN [cycle |-> FALSE, visited |-> visited, path |-> path]
    ELSE IF HasStep(steps, agent_name)
         THEN has_cycle_shared_deps(steps, FindStep(steps, agent_name).depends_on, 1,
                             path \cup {agent_name}, visited \cup {agent_name})
         ELSE [cycle |-> FALSE, visited |-> visited \cup {agent_name},
               path |-> path \cup {agent_name}]

has_cycle_shared_deps(steps, deps, i, path, visited) ==
    IF i > Len(deps) THEN [cycle |-> FALSE, visited |-> visited, path |-> path]
    ELSE LET r == has_cycle_shared(steps, deps[i], path, visited)
         IN IF r.cycle THEN r
            ELSE has_cycle_shared_deps(steps, deps, i + 1, r.path, r.visited)

has_cycle_no_copy(steps, agent_name, path, visited) ==
    LET r == has_cycle_shared(steps, agent_name, path, visited)
    IN [cycle |-> r.cycle, visited |-> r.visited]

\* The nested has_cycle: visited is shared by all calls of one validation,
\* path is copied for each dependency.  Returns the answer and visited.
RECURSIVE has_cycle(_, _, _, _), has_cycle_deps(_, _, _, _, _)
has_cycle(steps, agent_name, path, visited) ==
    IF agent_name \in path THEN [cycle |-> TRUE, visited |-> visited]
    ELSE IF agent_name \in visited THEN [cycle |-> FALSE, visited |-> visited]
    ELSE IF HasStep(steps, agent_name)
         THEN has_cycle_deps(steps, FindStep(steps, agent_name).depends_on, 1,
                             path \cup {agent_name}, visited \cup {agent_name})
         ELSE [cycle |-> FALSE, visited |-> visited \cup {agent_name}]

has_cycle_deps(steps, deps, i, path, visited) ==
    IF i > Len(deps) THEN [cycle |-> FALSE, visited |-> visited]
    ELSE LET r == has_cycle(steps, deps[i], path, visited)
         IN IF r.cycle THEN r
            ELSE has_cycle_deps(steps, deps, i + 1, path, r.visited)

\* for step in steps: if has_cycle(step.agent_name, set()): raise
RECURSIVE AnyCycle(_, _, _)
AnyCycle(steps, i, visited) ==
    IF i > Len(steps) THEN FALSE
    ELSE LET r == has_cycle(steps, steps[i].agent_name, {}, visited)
         IN IF r.cycle THEN TRUE ELSE AnyCycle(steps, i + 1, r.visited)

\* The error _validate_workflow raises, or "ok".
ValidateWorkflow(steps) ==
    IF Len(steps) # Cardinality(Range(AgentNameList(steps))) THEN "duplicate"
    ELSE IF \E i \in 1..Len(steps) :
                \E d \in Range(steps[i].depends_on) :
                    d \notin Range(AgentNameList(steps))
         THEN "unknown_dependency"
    ELSE IF AnyCycle(steps, 1, {}) THEN "cycle"
    ELSE "ok"

\* The message of the error _validate_workflow raises, as the pieces of
\* text it is formatted from; steps is a list it rejects.
ValidationMessage(steps) ==
    IF ValidateWorkflow(steps) = "duplicate"
    THEN <<"Duplicate agent names in workflow">>
    ELSE IF ValidateWorkflow(steps) = "unknown_dependency"
    THEN LET unknown(i) == {k \in 1..Len(steps[i].depends_on) :
                              steps[i].depends_on[k] \notin Range(AgentNameList(steps))}
             i == CHOOSE i \in 1..Len(steps) :
                     /\ unknown(i) # {}
                     /\ \A j \in 1..(i - 1) : unknown(j) = {}
             k == CHOOSE k \in unknown(i) : \A m \in unknown(i) : k <= m
         IN <<"Agent '", steps[i].agent_name, "' depends on unknown agent '",
              steps[i].depends_on[k], "'">>
    ELSE <<"Circular dependency detected in workflow">>

\* str(e) of the OrchestratorError register_workflow raises for name.
RegisterMessage(name, steps) ==
    <<"[Orchestrator:">> \o name \o <<"] Failed to register workflow '">> \o name
        \o <<"': [Orchestrator] ">> \o ValidationMessage(steps)

(***************************************************************************)
(* WorkflowManager.get_execution_order                                     *)
(***************************************************************************)
\* ReadySteps without the test of the dependencies.
RECURSIVE ReadyStepsNoDeps(_, _, _)
ReadyStepsNoDeps(steps, i, completed) ==
    IF i > Len(steps) THEN <<>>
    ELSE (IF steps[i].agent_name \notin completed
          THEN <<steps[i].agent_name>> ELSE <<>>)
         \o ReadyStepsNoDeps(steps, i + 1, completed)

\* The ready steps collected from the last declared to the first.
RECURSIVE ReadyStepsReversed(_, _, _)
ReadyStepsReversed(steps, i, completed) ==
    IF i > Len(steps) THEN <<>>
    ELSE ReadyStepsReversed(steps, i + 1, completed)
         \o (IF /\ steps[i].agent_name \notin completed
                 /\ \A dep \in Range(steps[i].depends_on) : dep \in completed
              THEN <<steps[i].agent_name>> ELSE <<>>)

\* ReadySteps without the test that the step is not yet completed.
RECURSIVE ReadyStepsRepeating(_, _, _)
ReadyStepsRepeating(steps, i, completed) ==
    IF i > Len(steps) THEN <<>>
    ELSE (IF \A dep \in Range(steps[i].depends_on) : dep \in completed
          THEN <<steps[i].agent_name>> ELSE <<>>)
         \o ReadyStepsRepeating(steps, i + 1, completed)

\* ReadySteps stopping at the first ready step.
RECURSIVE ReadyStepsFirstOnly(_, _, _)
ReadyStepsFirstOnly(steps, i, completed) ==
    IF i > Len(steps) THEN <<>>
    ELSE IF /\ steps[i].agent_name \notin completed
            /\ \A dep \in Range(steps[i].depends_on) : dep \in completed
    THEN <<steps[i].agent_name>>
    ELSE ReadyStepsFirstOnly(steps, i + 1, completed)

\* The steps not yet completed whose dependencies are all completed, in
\* declaration order.
RECURSIVE ReadySteps(_, _, _)
ReadySteps(steps, i, completed) ==
    IF i > Len(steps) THEN <<>>
    ELSE LET s == steps[i]
             rest == ReadySteps(steps, i + 1, completed)
         IN IF /\ s.agent_name \notin completed
               /\ \A dep \in Range(s.depends_on) : dep \in completed
            THEN <<s.agent_name>> \o rest
            ELSE rest

\* Every step listed as remaining.
RemainingAll(steps, i, completed) == AgentNameList(steps)

RECURSIVE Remaining(_, _, _)
Remaining(steps, i, completed) ==
    IF i > Len(steps) THEN <<>>
    ELSE (IF steps[i].agent_name \notin completed
          THEN <<steps[i].agent_name>> ELSE <<>>)
         \o Remaining(steps, i + 1, completed)

\* The while loop of get_execution_order; passes counts its turns.
RECURSIVE OrderLoop(_, _, _)
OrderLoop(steps, order, completed) ==
    IF ~(Cardinality(completed) < Len(steps))
    THEN [kind |-> "ok", order |-> order, remaining |-> <<>>, passes |-> Len(order)]
    ELSE LET ready == ReadySteps(steps, 1, completed)
         IN IF ready = <<>>
            THEN [kind |-> "circular", order |-> <<>>,
                  remaining |-> Remaining(steps, 1, completed),
                  passes |-> Len(order) + 1]
            ELSE OrderLoop(steps, Append(order, ready),
                           completed \cup Range(ready))

NoWorkflows == [w \in {} |-> <<>>]

NotFound == [kind |-> "not_found", order |-> <<>>, remaining |-> <<>>, passes |-> 0]
NoPlan == [kind |-> "none", order |-> <<>>, remaining |-> <<>>, passes |-> 0]

\* A plan that is the declaration order, in one level.
GetExecutionOrderDeclared(wfs, workflow_name) ==
    IF workflow_name \notin DOMAIN wfs THEN NotFound
    ELSE [kind |-> "ok", remaining |-> <<>>, passes |-> 1,
          order |-> IF wfs[workflow_name] = <<>> THEN <<>>
                    ELSE <<AgentNameList(wfs[workflow_name])>>]

\* get_workflow raises when the name is not registered.
GetExecutionOrder(wfs, workflow_name) ==
    IF workflow_name \notin DOMAIN wfs THEN NotFound
    ELSE OrderLoop(wfs[workflow_name], <<>>, {})

(***************************************************************************)
(* Values held in inputs, results and the namespace.  kind is the Python   *)
(* type, by names who produced the value; news and score stand for the     *)
(* result's sentiment.news.overall_sentiment, in tenths.                   *)
(***************************************************************************)
Value(kind, by, news, score) == [kind |-> kind, by |-> by, news |-> news, score |-> score]

None == Value("none", "", FALSE, 0)

(***************************************************************************)
(* BaseAgent                                                               *)
(***************************************************************************)
RegisteredAgents == {"DataFetcher", "Analyzer", "DecisionMaker", "Notifier", "Supervisor"}

\* self.config.get('max_retries', 3)
DefaultMaxRetries == 3

\* BaseAgent.__init__ and reset_state: the counters of a fresh agent.
\* last_execution_time: None before the first result
NoDuration == -1

NewAgent == [execution_count |-> 0, last_execution_time |-> NoDuration,
             last_result |-> None]

\* The update of lines 86-89 without self.execution_count += 1.
UpdateStateNoCount(agent, result) ==
    [execution_count |-> agent.execution_count, last_execution_time |-> 0,
     last_result |-> result]

\* Lines 86-89: the counters after a result was accepted.  The body takes no
\* time, so that time.time() - start_time is 0.
UpdateState(agent, result) ==
    [execution_count |-> agent.execution_count + 1, last_execution_time |-> 0,
     last_result |-> result]

\* What a task body does on its k-th invocation of one execute call: the
\* script lists its failing attempts ("raise": _execute_impl raises,
\* "badout": it returns a result validate_output rejects); after them it
\* returns a valid result.
Scripts == UNION {[1..n -> {"raise", "badout"}] : n \in 0..MaxFail}

BodyOutcome(script, k) == IF k <= Len(script) THEN script[k] ELSE "ok"

\* A result validate_output does not accept.
Rejected == Value("rejected", "", FALSE, 0)

\* result = self._execute_impl(inputs) on the k-th invocation: the body
\* raises, or returns a result.
ExecuteImpl(script, k, result) ==
    IF BodyOutcome(script, k) = "raise" THEN [raised |-> TRUE, result |-> None]
    ELSE IF BodyOutcome(script, k) = "badout" THEN [raised |-> FALSE, result |-> Rejected]
    ELSE [raised |-> FALSE, result |-> result]

\* execute without the call of validate_output.
ValidateOutputSkipped(result) == TRUE

\* self.validate_output(result): whether it returns (it raises otherwise).
ValidateOutput(result) == result # Rejected

\* range(retries) in place of range(retries + 1).
AttemptsOffByOne(retries) == retries

\* range(retries + 2) in place of range(retries + 1).
AttemptsOneMore(retries) == retries + 2

\* for attempt in range(retries + 1): the number of attempts.
Attempts(retries) == retries + 1

\* The delay kept as it is in place of retry_delay *= 2.
BackoffConstant(retry_delay) == retry_delay

\* retry_delay *= 2  # Exponential backoff
Backoff(retry_delay) == retry_delay * 2

\* One turn of the retry loop of execute and all the turns after it.
RECURSIVE ExecuteLoop(_, _, _, _, _, _, _)
ExecuteLoop(agent, script, result, attempt, retries, retry_delay, waits) ==
    IF attempt >= Attempts(retries)
    THEN \* All retries exhausted
         [kind |-> "AgentError", result |-> None, invocations |-> attempt,
          waits |-> waits, agent |-> agent]
    ELSE IF /\ ~ExecuteImpl(script, attempt + 1, result).raised
            /\ ValidateOutput(ExecuteImpl(script, attempt + 1, result).result)
    THEN [kind |-> "ok", result |-> ExecuteImpl(script, attempt + 1, result).result,
          invocations |-> attempt + 1, waits |-> waits,
          agent |-> UpdateState(agent, ExecuteImpl(script, attempt + 1, result).result)]
    ELSE IF attempt < retries
    THEN ExecuteLoop(agent, script, result, attempt + 1, retries,
                     Backoff(retry_delay), Append(waits, retry_delay))
    ELSE ExecuteLoop(agent, script, result, attempt + 1, retries, retry_delay, waits)

\* execute with validate_input's exception handled like one of the body:
\* every attempt fails.
ExecuteRetryingInvalid(agent, valid, script, result, given, max_retries, retry_delay) ==
    LET retries == IF given THEN max_retries ELSE DefaultMaxRetries
    IN ExecuteLoop(agent,
                   IF valid THEN script ELSE [k \in 1..(retries + 1) |-> "raise"],
                   result, 0, retries, retry_delay, <<>>)

\* execute returning None where it should raise: after rejected inputs and
\* after the last attempt.
ExecuteReturningNone(agent, valid, script, result, given, max_retries, retry_delay) ==
    LET retries == IF given THEN max_retries ELSE DefaultMaxRetries
        r == ExecuteLoop(agent, script, result, 0, retries, retry_delay, <<>>)
    IN IF ~valid
       THEN [kind |-> "ok", result |-> None, invocations |-> 0,
             waits |-> <<>>, agent |-> agent]
       ELSE [r EXCEPT !.kind = "ok"]

\* BaseAgent.execute(inputs, max_retries, retry_delay) on an agent whose
\* validate_input accepts the inputs iff valid and whose body follows script
\* and returns result.  given is FALSE when max_retries is None.
Execute(agent, valid, script, result, given, max_retries, retry_delay) ==
    LET retries == IF given THEN max_retries ELSE DefaultMaxRetries
    IN IF ~valid
       THEN [kind |-> "ValidationError", result |-> None, invocations |-> 0,
             waits |-> <<>>, agent |-> agent]
       ELSE ExecuteLoop(agent, script, result, 0, retries, retry_delay, <<>>)

NoCall == [agent_name |-> "", valid |-> TRUE, script |-> <<>>, given |-> FALSE,
           max_retries |-> 0, retry_delay |-> 0, calls |-> 0]

NoExecResult == [kind |-> "none", result |-> None, invocations |-> 0, waits |-> <<>>]

ExecIdle ==
    /\ agents = [a \in RegisteredAgents |-> NewAgent]
    /\ call = NoCall
    /\ execResult = NoExecResult

(***************************************************************************)
(* The workflow state dictionary of execute_workflow (the RunState).       *)
(***************************************************************************)
NoOutputs == [k \in {} |-> None]

\* A key the dictionary does not have yet (end_time).
NoTime == -1

\* Every state is given the keys a run may add, with "" or <<>> where the
\* dictionary has no such key.
WorkflowState(status, outputs, completed_agents, failed_agents, error) ==
    [status |-> status, outputs |-> outputs, completed_agents |-> completed_agents,
     failed_agents |-> failed_agents, error |-> error, conditional_branch |-> "",
     start_time |-> 0, end_time |-> NoTime, state_file |-> <<>>]

\* The empty dictionary {}.
EmptyState == WorkflowState("", NoOutputs, <<>>, <<>>, "")

(***************************************************************************)
(* json.dump and json.load.  A value is written as the JSON type of its    *)
(* Python type (list and tuple both as an array) and read back as the      *)
(* Python type json.load builds for that JSON type.                        *)
(***************************************************************************)
Serializable(v) == v.kind \in {"none", "str", "list", "tuple", "dict"}

PyToJson(v) ==
    [v EXCEPT !.kind = CASE v.kind = "none" -> "null"
                         [] v.kind = "str" -> "string"
                         [] v.kind = "list" -> "array"
                         [] v.kind = "tuple" -> "array"
                         [] v.kind = "dict" -> "object"
                         [] OTHER -> "unserializable"]

\* A decoder that builds tuples from arrays.
JsonToPyTuples(v) ==
    [v EXCEPT !.kind = CASE v.kind = "null" -> "none"
                         [] v.kind = "string" -> "str"
                         [] v.kind = "array" -> "tuple"
                         [] v.kind = "object" -> "dict"
                         [] OTHER -> v.kind]

JsonToPy(v) ==
    [v EXCEPT !.kind = CASE v.kind = "null" -> "none"
                         [] v.kind = "string" -> "str"
                         [] v.kind = "array" -> "list"
                         [] v.kind = "object" -> "dict"
                         [] OTHER -> v.kind]

StateSerializable(state) == \A k \in DOMAIN state.outputs : Serializable(state.outputs[k])

DumpState(state) == [state EXCEPT !.outputs = [k \in DOMAIN state.outputs |-> PyToJson(state.outputs[k])]]

ParseState(json) == [json EXCEPT !.outputs = [k \in DOMAIN json.outputs |-> JsonToPy(json.outputs[k])]]

(***************************************************************************)
(* StateManager                                                            *)
(***************************************************************************)
\* workflow_id is None
NoId == <<>>

\* datetime.now().strftime("%Y%m%d_%H%M%S") at second t of the day modelled
Seconds == <<"120000", "120001", "120002", "120003", "120004", "120005", "120006">>

TimeId(t) == <<"20261106", Seconds[t + 1]>>

\* f"{workflow_name}_{workflow_id}.json"
FileName(workflow_name, workflow_id) == workflow_name \o workflow_id

\* The segments names and ids are made of, in the order of their text.
SegmentOrder == <<"120000", "120001", "120002", "120003", "120004", "120005", "120006",
                  "20261106", "r1", "r2", "wf", "x">>

SegmentRank(seg) == CHOOSE i \in 1..Len(SegmentOrder) : SegmentOrder[i] = seg

\* Whether file name f sorts before file name g (as strings).
RECURSIVE SortsBefore(_, _)
SortsBefore(f, g) ==
    IF g = <<>> THEN FALSE
    ELSE IF f = <<>> THEN TRUE
    ELSE IF Head(f) = Head(g) THEN SortsBefore(Tail(f), Tail(g))
    ELSE SegmentRank(Head(f)) < SegmentRank(Head(g))

\* self.state_dir.glob(f"{workflow_name}_*.json")
Glob(dir, workflow_name) ==
    {f \in DOMAIN dir :
        /\ Len(f) > Len(workflow_name)
        /\ SubSeq(f, 1, Len(workflow_name)) = workflow_name}

NoFiles == [f \in {} |-> EmptyState]

Unreadable == [readable |-> FALSE, workflow_name |-> <<>>, workflow_id |-> <<>>,
               timestamp |-> 0, state |-> EmptyState]

\* save_state(workflow_name, state, workflow_id) at time t.  fault is what
\* goes wrong with the file: "none", "open" (open() raises) or "write"
\* (json.dump raises after the file was opened for writing).
SaveState(dir, workflow_name, state, workflow_id, t, fault) ==
    LET id == IF workflow_id = NoId THEN TimeId(t) ELSE workflow_id
        filepath == FileName(workflow_name, id)
        state_data == [readable |-> TRUE, workflow_name |-> workflow_name,
                       workflow_id |-> id, timestamp |-> t,
                       state |-> DumpState(state)]
    IN IF fault = "open"
       THEN [raised |-> TRUE, filepath |-> filepath, files |-> dir]
       ELSE IF fault = "write" \/ ~StateSerializable(state)
       THEN [raised |-> TRUE, filepath |-> filepath,
             files |-> (filepath :> Unreadable) @@ dir]
       ELSE [raised |-> FALSE, filepath |-> filepath,
             files |-> (filepath :> state_data) @@ dir]

\* The newest file load_state finds for a workflow: sorted(..., reverse=True)[0]
LatestFile(dir, workflow_name) ==
    CHOOSE f \in Glob(dir, workflow_name) :
        \A g \in Glob(dir, workflow_name) : g = f \/ SortsBefore(g, f)

\* load_state(workflow_name, workflow_id)
LoadState(dir, workflow_name, workflow_id) ==
    IF workflow_id = NoId /\ Glob(dir, workflow_name) = {}
    THEN EmptyState
    ELSE LET filepath == IF workflow_id # NoId
                         THEN FileName(workflow_name, workflow_id)
                         ELSE LatestFile(dir, workflow_name)
         IN IF filepath \notin DOMAIN dir THEN EmptyState       \* FileNotFoundError
            ELSE IF ~dir[filepath].readable THEN EmptyState     \* json.load raises
            ELSE ParseState(dir[filepath].state)

\* The file names of S, sorted(..., reverse=True).
RECURSIVE SortedReverse(_)
SortedReverse(S) ==
    IF S = {} THEN <<>>
    ELSE LET f == CHOOSE f \in S : \A g \in S : g = f \/ SortsBefore(g, f)
         IN <<f>> \o SortedReverse(S \ {f})

\* list_saved_states called without a workflow name
NoName == <<>>

\* The summaries of the files of paths that can be read, in that order.
RECURSIVE Summaries(_, _)
Summaries(dir, paths) ==
    IF paths = <<>> THEN <<>>
    ELSE LET filepath == Head(paths)
             data == dir[filepath]
         IN (IF data.readable
             THEN <<[workflow_name |-> data.workflow_name,
                     workflow_id |-> data.workflow_id,
                     timestamp |-> data.timestamp,
                     filepath |-> filepath]>>
             ELSE <<>>) \o Summaries(dir, Tail(paths))

\* list_saved_states(workflow_name): the pattern is "*.json" without a name.
ListSavedStates(dir, workflow_name) ==
    Summaries(dir, SortedReverse(Glob(dir, workflow_name)))

NoEntry == [ok |-> FALSE, saved |-> FALSE, state |-> EmptyState]

NoSave == [kind |-> "none", filepath |-> <<>>, saves |-> 0]

NoLoad == [kind |-> "none", workflow_name |-> <<>>, workflow_id |-> <<>>,
           state |-> EmptyState, expected |-> NoEntry, summaries |-> <<>>]

StoreIdle ==
    /\ files = NoFiles
    /\ now = 0
    /\ journal = [f \in {} |-> NoEntry]
    /\ saveResult = NoSave
    /\ loaded = NoLoad

\* What the journal records of a save_state call: whether the last call for
\* the file returned (ok), whether some call for it did (saved), and the
\* state of the last call that returned.
Journal(j, r, state) ==
    IF r.raised
    THEN IF r.filepath \in DOMAIN j
         THEN (r.filepath :> [j[r.filepath] EXCEPT !.ok = FALSE]) @@ j
         ELSE j
    ELSE (r.filepath :> [ok |-> TRUE, saved |-> TRUE, state |-> state]) @@ j

StoreNames == {<<"wf">>, <<"wf", "x">>}
StoreIds == {<<"r1">>, <<"x", "r1">>}

\* The values a caller may put into the namespace.
CallerValues == {Value(kind, "caller", FALSE, 0) :
                    kind \in {"str", "list", "tuple", "dict", "object"}}

\* The states handed to save_state: a completed run with one
\* caller-supplied value in its namespace, and a failed run with none.
SampleStates ==
    {[WorkflowState("completed", ("location" :> v), <<"DataFetcher", "Notifier">>, <<>>, "")
        EXCEPT !.conditional_branch = "normal", !.end_time = 1] :
        v \in CallerValues}
    \cup
    {[WorkflowState("failed", NoOutputs, <<>>, <<"DataFetcher">>, "Critical agent failed")
        EXCEPT !.end_time = 0]}

(***************************************************************************)
(* Orchestrator                                                            *)
(***************************************************************************)
\* orchestrator_config.get('max_retries', 3) and .get('retry_delay', 2)
OrchestratorMaxRetries == 3
OrchestratorRetryDelay == 2

\* A critical set that is empty.
is_critical_agent_none(agent_name) == FALSE

\* critical_agents without 'Analyzer'.
is_critical_agent_fetcher(agent_name) == agent_name \in {"DataFetcher"}

\* _is_critical_agent
is_critical_agent(agent_name) == agent_name \in {"DataFetcher", "Analyzer"}

\* agent_name.lower() + '_output'
DefaultKey(agent_name) ==
    CASE agent_name = "DataFetcher" -> "datafetcher_output"
      [] agent_name = "Analyzer" -> "analyzer_output"
      [] agent_name = "DecisionMaker" -> "decisionmaker_output"
      [] agent_name = "Notifier" -> "notifier_output"
      [] agent_name = "Supervisor" -> "supervisor_output"
      [] agent_name = "Ghost" -> "ghost_output"
      [] OTHER -> "phantom_output"

\* The task is handed the whole namespace.
AgentInputsAll(step, available_outputs) == available_outputs

\* _execute_agent: the declared inputs that are in the namespace.
AgentInputs(step, available_outputs) ==
    [k \in Range(step.inputs) \cap DOMAIN available_outputs |-> available_outputs[k]]

\* The default key written whether or not the step declares outputs.
OutputKeysBoth(step, agent_name) ==
    Range(step.outputs) \cup {DefaultKey(agent_name)}

\* The keys a successful step writes.
OutputKeys(step, agent_name) ==
    IF step.outputs # <<>> THEN Range(step.outputs) ELSE {DefaultKey(agent_name)}

\* workflow_state['outputs'][output_key] = result, for every key of the step.
StoreOutputs(step, agent_name, outputs, result) ==
    [k \in DOMAIN outputs \cup OutputKeys(step, agent_name) |->
        IF k \in OutputKeys(step, agent_name) THEN result ELSE outputs[k]]

\* The thresholds compared with <= in place of <.
HandleConditionalLogicInclusive(analyzer_result, state) ==
    IF ~analyzer_result.news THEN state
    ELSE [state EXCEPT !.conditional_branch =
            IF analyzer_result.score <= -5 THEN "critical_alert"
            ELSE IF analyzer_result.score <= -3 THEN "heightened_monitoring"
            ELSE "normal"]

\* _handle_conditional_logic; the score is in tenths.
HandleConditionalLogic(analyzer_result, state) ==
    IF ~analyzer_result.news THEN state
    ELSE [state EXCEPT !.conditional_branch =
            IF analyzer_result.score < -5 THEN "critical_alert"
            ELSE IF analyzer_result.score < -3 THEN "heightened_monitoring"
            ELSE "normal"]

\* The results a task body may return: a dictionary, which for the Analyzer
\* may carry a news sentiment.
Results(agent_name) ==
    IF agent_name = "Analyzer"
    THEN {Value("dict", agent_name, FALSE, 0)} \cup
         {Value("dict", agent_name, TRUE, score) : score \in {-6, -5, -3}}
    ELSE {Value("dict", agent_name, FALSE, 0)}

\* How a step's task may behave in a run: validate_input rejects the
\* inputs, or the body follows a script: it succeeds at once, after one
\* failing attempt, or fails on every attempt the orchestrator allows.
TaskRuns(agent_name) ==
    {[valid |-> FALSE, script |-> <<>>, result |-> None]}
    \cup
    {[valid |-> TRUE, script |-> script, result |-> result] :
        script \in {<<>>, <<"badout">>,
                    [k \in 1..(OrchestratorMaxRetries + 1) |-> "raise"]},
        result \in Results(agent_name)}

\* What the caller may pass as initial_inputs.
InitialInputs == {NoOutputs, ("k1" :> Value("str", "caller", FALSE, 0))}

\* The steps of a run's workflows: the names of the steps in the order
\* they are declared, and what a step declares as inputs and outputs.
Casts == {<<"DataFetcher", "Analyzer", "Notifier">>,
          <<"Analyzer", "Notifier", "DataFetcher">>,
          <<"Notifier", "Ghost", "DataFetcher">>,
          <<"Notifier", "Analyzer", "DecisionMaker">>}

IOProfiles == {[inputs |-> <<>>, outputs |-> <<"k1", "k2">>],
               [inputs |-> <<"k1", "k2">>, outputs |-> <<>>]}

\* config is a list of n step configurations named after cast; each step
\* depends on at most one other step, the steps after those of acc on at
\* most budget steps in all.
RECURSIVE DrawRunConfig(_, _, _, _)
DrawRunConfig(cast, n, budget, acc) ==
    IF Len(acc) = n THEN config = acc
    ELSE LET i == Len(acc) + 1
         IN \E io \in IOProfiles,
               deps \in {<<>>} \cup {<<cast[j]>> : j \in (1..n) \ {i}} :
                /\ Len(deps) <= budget
                /\ DrawRunConfig(cast, n, budget - Len(deps),
                                 Append(acc, WorkflowStep(cast[i], io.inputs,
                                                          io.outputs, deps)))

RunConfigs ==
    \E n \in 0..MaxRunSteps, cast \in Casts :
        DrawRunConfig(cast, Min(n, Len(cast)), MaxRunEdges, <<>>)

NoError == [kind |-> "none", message |-> ""]

NoOutcome == [kind |-> "none", error |-> NoError, state |-> EmptyState]

RunIdle ==
    /\ pc = "idle"
    /\ current_workflow = <<>>
    /\ current_workflow_id = NoId
    /\ save_state = TRUE
    /\ initial_inputs = NoOutputs
    /\ execution_order = <<>>
    /\ level_num = 0
    /\ agent_index = 0
    /\ workflow_state = EmptyState
    /\ pending = NoError
    /\ outcome = NoOutcome
    /\ trace = <<>>
    /\ producers = [k \in {} |-> [agent_name |-> "", level_num |-> 0, result |-> None]]
    /\ execution_history = <<>>

(***************************************************************************)
(* Calls of BaseAgent.execute.                                             *)
(***************************************************************************)
\* A caller invokes execute on an agent with the arguments drawn for this
\* behaviour; the task body follows a script of its own in every call.
ExecuteCall(script) ==
    /\ call.agent_name \in RegisteredAgents
    /\ call.calls < MaxCalls
    /\ LET a == call.agent_name
           r == Execute(agents[a], call.valid, script, Value("dict", a, FALSE, 0),
                        call.given, call.max_retries, call.retry_delay)
       IN /\ agents' = [agents EXCEPT ![a] = r.agent]
          /\ execResult' = [kind |-> r.kind, result |-> r.result,
                            invocations |-> r.invocations, waits |-> r.waits]
    /\ call' = [call EXCEPT !.script = script, !.calls = call.calls + 1]
    /\ UNCHANGED regVars
    /\ UNCHANGED storeVars
    /\ UNCHANGED runVars

InitExec ==
    /\ config = <<>>
    /\ workflows = NoWorkflows
    /\ regResult = "none"
    /\ planResult = NoPlan
    /\ agents = [a \in RegisteredAgents |-> NewAgent]
    /\ execResult = NoExecResult
    /\ \E valid \in BOOLEAN, given \in BOOLEAN,
          max_retries \in (-1)..MaxRetries, retry_delay \in 1..MaxDelay :
            call = [agent_name |-> "Notifier", valid |-> valid, script |-> <<>>,
                    given |-> given, max_retries |-> max_retries,
                    retry_delay |-> retry_delay, calls |-> 0]
    /\ StoreIdle
    /\ RunIdle

NextExec == \E script \in Scripts : ExecuteCall(script)

SpecExec == InitExec /\ [][NextExec]_vars

\* register_workflow storing the steps before it validates them.
RegisterWorkflowStoring(name) ==
    /\ regResult = "none"
    /\ regResult' = ValidateWorkflow(config)
    /\ workflows' = (name :> config) @@ workflows
    /\ UNCHANGED <<config, planResult>>
    /\ UNCHANGED execVars
    /\ UNCHANGED storeVars
    /\ UNCHANGED runVars

(***************************************************************************)
(* Registration and planning.                                              *)
(***************************************************************************)
\* register_workflow(name, config): parse, validate, store; any error is
\* re-raised as an OrchestratorError and nothing is stored.
RegisterWorkflow(name) ==
    /\ regResult = "none"
    /\ LET steps == config
           verdict == ValidateWorkflow(steps)
       IN /\ regResult' = verdict
          /\ workflows' = IF verdict = "ok"
                          THEN (name :> steps) @@ workflows
                          ELSE workflows
    /\ UNCHANGED <<config, planResult>>
    /\ UNCHANGED execVars
    /\ UNCHANGED storeVars
    /\ UNCHANGED runVars

\* get_execution_order(name)
PlanWorkflow(name) ==
    /\ regResult # "none"
    /\ planResult.kind = "none"
    /\ planResult' = GetExecutionOrder(workflows, name)
    /\ UNCHANGED <<config, workflows, regResult>>
    /\ UNCHANGED execVars
    /\ UNCHANGED storeVars
    /\ UNCHANGED runVars

InitReg ==
    /\ GraphConfigs
    /\ workflows = NoWorkflows
    /\ regResult = "none"
    /\ planResult = NoPlan
    /\ ExecIdle
    /\ StoreIdle
    /\ RunIdle

NextReg ==
    \/ \E name \in WorkflowNames : RegisterWorkflow(name)
    \/ \E name \in WorkflowNames : PlanWorkflow(name)

SpecReg == InitReg /\ [][NextReg]_vars

(***************************************************************************)
(* register_workflow and get_execution_order on a WorkflowManager that     *)
(* already holds a workflow under the name.                                *)
(***************************************************************************)
\* The steps registered before, under the name Wf.
PriorSteps ==
    <<WorkflowStep("Supervisor", <<>>, <<>>, <<>>),
      WorkflowStep("Notifier", <<>>, <<>>, <<"Supervisor">>)>>

InitReReg ==
    /\ GraphConfigs
    /\ workflows = (Wf :> PriorSteps)
    /\ regResult = "none"
    /\ planResult = NoPlan
    /\ ExecIdle
    /\ StoreIdle
    /\ RunIdle

SpecReReg == InitReReg /\ [][NextReg]_vars

(***************************************************************************)
(* The loop of get_execution_order on every step list, registered or not.  *)
(***************************************************************************)
PlanSteps ==
    /\ planResult.kind = "none"
    /\ planResult' = OrderLoop(config, <<>>, {})
    /\ UNCHANGED <<config, workflows, regResult>>
    /\ UNCHANGED execVars
    /\ UNCHANGED storeVars
    /\ UNCHANGED runVars

NextPlan == PlanSteps

SpecPlan == InitReg /\ [][NextPlan]_vars

(***************************************************************************)
(* Calls of StateManager.                                                  *)
(***************************************************************************)
\* A caller saves a state.
Save(workflow_name, state, workflow_id, fault) ==
    /\ saveResult.saves < MaxSaves
    /\ LET r == SaveState(files, workflow_name, state, workflow_id, now, fault)
       IN /\ files' = r.files
          /\ journal' = Journal(journal, r, state)
          /\ saveResult' = [kind |-> IF r.raised THEN "raised" ELSE "saved",
                            filepath |-> r.filepath, saves |-> saveResult.saves + 1]
    /\ loaded' = NoLoad
    /\ UNCHANGED now
    /\ UNCHANGED regVars
    /\ UNCHANGED execVars
    /\ UNCHANGED runVars

\* A caller loads a state.
Load(workflow_name, workflow_id) ==
    /\ loaded' = [kind |-> "state", workflow_name |-> workflow_name,
                  workflow_id |-> workflow_id,
                  state |-> LoadState(files, workflow_name, workflow_id),
                  expected |-> IF FileName(workflow_name, workflow_id) \in DOMAIN journal
                               THEN journal[FileName(workflow_name, workflow_id)]
                               ELSE NoEntry,
                  summaries |-> <<>>]
    /\ UNCHANGED <<files, now, journal, saveResult>>
    /\ UNCHANGED regVars
    /\ UNCHANGED execVars
    /\ UNCHANGED runVars

\* A caller lists the saved states, of one workflow or of all.
List(workflow_name) ==
    /\ loaded' = [NoLoad EXCEPT !.kind = "list", !.workflow_name = workflow_name,
                                !.summaries = ListSavedStates(files, workflow_name)]
    /\ UNCHANGED <<files, now, journal, saveResult>>
    /\ UNCHANGED regVars
    /\ UNCHANGED execVars
    /\ UNCHANGED runVars

\* A second passes.
Tick ==
    /\ now < MaxTime
    /\ now' = now + 1
    /\ UNCHANGED <<files, journal, saveResult, loaded>>
    /\ UNCHANGED regVars
    /\ UNCHANGED execVars
    /\ UNCHANGED runVars

InitStore ==
    /\ config = <<>>
    /\ workflows = NoWorkflows
    /\ regResult = "none"
    /\ planResult = NoPlan
    /\ ExecIdle
    /\ StoreIdle
    /\ RunIdle

NextStore ==
    \/ \E workflow_name \in StoreNames, state \in SampleStates,
          workflow_id \in StoreIds, fault \in {"none", "open", "write"} :
            Save(workflow_name, state, workflow_id, fault)
    \/ \E workflow_name \in StoreNames, workflow_id \in StoreIds \cup {NoId} :
            Load(workflow_name, workflow_id)
    \/ Tick

SpecStore == InitStore /\ [][NextStore]_vars

\* Saves and listings.
NextList ==
    \/ \E workflow_name \in StoreNames, state \in SampleStates,
          workflow_id \in StoreIds, fault \in {"none", "open", "write"} :
            Save(workflow_name, state, workflow_id, fault)
    \/ \E workflow_name \in StoreNames \cup {NoName} : List(workflow_name)
    \/ Tick

SpecList == InitStore /\ [][NextList]_vars

(***************************************************************************)
(* Orchestrator.execute_workflow, one run.                                 *)
(***************************************************************************)
\* Lines 134-158: the run id, the workflow and its plan (both outside the
\* try: their errors reach the caller and nothing is saved), the initial
\* workflow state.
StartWorkflow(workflow_name, inputs, save) ==
    /\ pc = "idle"
    /\ current_workflow' = workflow_name
    /\ current_workflow_id' = TimeId(now)
    /\ save_state' = save
    /\ initial_inputs' = inputs
    /\ LET plan == GetExecutionOrder(workflows, workflow_name)
       IN IF plan.kind # "ok"
          THEN /\ pc' = "done"
               /\ outcome' = [kind |-> "raised",
                              error |-> [kind |-> "WorkflowError",
                                         message |-> IF plan.kind = "not_found"
                                                     THEN "Workflow not found"
                                                     ELSE "Circular dependency detected"],
                              state |-> EmptyState]
               /\ UNCHANGED <<execution_order, level_num, agent_index, workflow_state,
                              producers>>
          ELSE /\ pc' = "running"
               /\ execution_order' = plan.order
               /\ level_num' = 1
               /\ agent_index' = 1
               /\ workflow_state' = [WorkflowState("running", inputs, <<>>, <<>>, "")
                                        EXCEPT !.start_time = now]
               /\ producers' = [k \in DOMAIN inputs |->
                                   [agent_name |-> "", level_num |-> 0, result |-> inputs[k]]]
               /\ UNCHANGED outcome
    /\ UNCHANGED <<pending, trace, execution_history>>
    /\ UNCHANGED regVars
    /\ UNCHANGED execVars
    /\ UNCHANGED storeVars

\* What the trace records of one turn of the loop over the agents of a level.
TraceEntry(agent_name, inputs, sources, kind, invocations, result) ==
    [agent_name |-> agent_name, level_num |-> level_num, inputs |-> inputs,
     sources |-> sources, kind |-> kind, invocations |-> invocations,
     result |-> result]

\* The loop moves to the next agent of the level, or to the next level.
Advance ==
    IF agent_index < Len(execution_order[level_num])
    THEN /\ agent_index' = agent_index + 1
         /\ UNCHANGED level_num
    ELSE /\ agent_index' = 1
         /\ level_num' = level_num + 1

\* The exception leaves the loops for the handler of line 216.
Raise(kind, message) ==
    /\ pc' = "failing"
    /\ pending' = [kind |-> kind, message |-> message]
    /\ UNCHANGED <<level_num, agent_index>>

\* Lines 168-204: one turn of the loop over the agents of a level.  The
\* step's task behaves as task says.
ExecuteStep(task) ==
    /\ pc = "running"
    /\ level_num <= Len(execution_order)
    /\ LET agent_name == execution_order[level_num][agent_index]
           steps == workflows[current_workflow]
       IN /\ task \in TaskRuns(agent_name)
          /\ IF ~HasStep(steps, agent_name)
             THEN /\ Raise("OrchestratorError", "Step configuration not found")
                  /\ trace' = Append(trace, TraceEntry(agent_name, NoOutputs, producers,
                                                       "OrchestratorError", 0, None))
                  /\ UNCHANGED <<workflow_state, producers, agents>>
             ELSE IF agent_name \notin DOMAIN agents
             THEN /\ Raise("OrchestratorError", "Unknown agent")
                  /\ trace' = Append(trace, TraceEntry(agent_name, NoOutputs, producers,
                                                       "OrchestratorError", 0, None))
                  /\ UNCHANGED <<workflow_state, producers, agents>>
             ELSE LET step == FindStep(steps, agent_name)
                      agent_inputs == AgentInputs(step, workflow_state.outputs)
                      r == Execute(agents[agent_name], task.valid, task.script,
                                   task.result, TRUE, OrchestratorMaxRetries,
                                   OrchestratorRetryDelay)
                      entry == TraceEntry(agent_name, agent_inputs,
                                          [k \in DOMAIN agent_inputs |-> producers[k]],
                                          r.kind, r.invocations, r.result)
                  IN /\ agents' = [agents EXCEPT ![agent_name] = r.agent]
                     /\ trace' = Append(trace, entry)
                     /\ IF r.kind = "ok"
                        THEN /\ workflow_state' =
                                  LET stored == [workflow_state EXCEPT
                                        !.outputs = StoreOutputs(step, agent_name,
                                                        workflow_state.outputs, r.result),
                                        !.completed_agents = Append(@, agent_name)]
                                  IN IF agent_name = "Analyzer"
                                     THEN HandleConditionalLogic(r.result, stored)
                                     ELSE stored
                             /\ producers' =
                                  [k \in DOMAIN producers \cup OutputKeys(step, agent_name) |->
                                      IF k \in OutputKeys(step, agent_name)
                                      THEN [agent_name |-> agent_name,
                                            level_num |-> level_num, result |-> r.result]
                                      ELSE producers[k]]
                             /\ Advance
                             /\ UNCHANGED <<pc, pending>>
                        ELSE /\ workflow_state' = [workflow_state EXCEPT
                                                     !.failed_agents = Append(@, agent_name)]
                             /\ UNCHANGED producers
                             /\ IF is_critical_agent(agent_name)
                                THEN Raise("OrchestratorError", "Critical agent failed")
                                ELSE /\ Advance
                                     /\ UNCHANGED <<pc, pending>>
    /\ UNCHANGED <<current_workflow, current_workflow_id, save_state, initial_inputs,
                   execution_order, outcome, execution_history>>
    /\ UNCHANGED regVars
    /\ UNCHANGED <<call, execResult>>
    /\ UNCHANGED storeVars

\* self.state_manager.save_state(workflow_name, workflow_state,
\* self.current_workflow_id), when save_state is set.
SaveRun(state, fault) ==
    IF save_state
    THEN SaveState(files, current_workflow, state, current_workflow_id, now, fault)
    ELSE [raised |-> FALSE, filepath |-> <<>>, files |-> files]

\* What a run's save leaves in the store.
Saved(r, state) ==
    IF save_state
    THEN /\ files' = r.files
         /\ journal' = Journal(journal, r, state)
         /\ saveResult' = [kind |-> IF r.raised THEN "raised" ELSE "saved",
                           filepath |-> r.filepath, saves |-> saveResult.saves + 1]
         /\ UNCHANGED <<now, loaded>>
    ELSE UNCHANGED storeVars

\* The final save inside the try block: its exception would reach the
\* handler of line 216.
AfterFailedSaveInTry == "failing"

\* Where an exception of the final save of lines 231-236 goes: the save is
\* after the try statement, so the exception leaves execute_workflow.
AfterFailedSave == "done"

\* Lines 206-214 and 230-247: every level was executed; the state is
\* marked completed, saved, recorded in the history and returned.
CompleteWorkflow(fault) ==
    /\ pc = "running"
    /\ level_num > Len(execution_order)
    /\ save_state \/ fault = "none"
    /\ LET completed == [workflow_state EXCEPT !.status = "completed", !.end_time = now]
           r == SaveRun(completed, fault)
       IN /\ Saved(r, completed)
          /\ IF r.raised
             THEN /\ pc' = AfterFailedSave
                  /\ workflow_state' = completed
                  /\ outcome' = [kind |-> "raised",
                                 error |-> [kind |-> "OSError", message |-> "save failed"],
                                 state |-> EmptyState]
                  /\ UNCHANGED execution_history
             ELSE /\ pc' = "done"
                  /\ workflow_state' = IF save_state
                                       THEN [completed EXCEPT !.state_file = r.filepath]
                                       ELSE completed
                  /\ outcome' = [kind |-> "returned", error |-> NoError,
                                 state |-> workflow_state']
                  /\ execution_history' =
                        Append(execution_history,
                               [workflow_name |-> current_workflow,
                                workflow_id |-> current_workflow_id,
                                status |-> "completed"])
    /\ UNCHANGED <<current_workflow, current_workflow_id, save_state, initial_inputs,
                   execution_order, level_num, agent_index, pending, trace, producers>>
    /\ UNCHANGED regVars
    /\ UNCHANGED execVars

\* The handler of line 216 raising again without saving the state.
FailWorkflowNoSave(fault) ==
    /\ pc = "failing"
    /\ fault = "none"
    /\ workflow_state' = [workflow_state EXCEPT !.status = "failed", !.end_time = now,
                                                !.error = pending.message]
    /\ outcome' = [kind |-> "raised", error |-> pending, state |-> EmptyState]
    /\ pc' = "done"
    /\ UNCHANGED <<current_workflow, current_workflow_id, save_state, initial_inputs,
                   execution_order, level_num, agent_index, pending, trace, producers,
                   execution_history>>
    /\ UNCHANGED regVars
    /\ UNCHANGED execVars
    /\ UNCHANGED storeVars

\* Lines 216-228: an exception left the loops; the state is marked failed,
\* saved, and the exception is raised again.  An exception of save_state
\* is raised in its place.
FailWorkflow(fault) ==
    /\ pc = "failing"
    /\ save_state \/ fault = "none"
    /\ LET failed == [workflow_state EXCEPT !.status = "failed", !.end_time = now,
                                            !.error = pending.message]
           r == SaveRun(failed, fault)
       IN /\ Saved(r, failed)
          /\ workflow_state' = failed
          /\ outcome' = [kind |-> "raised",
                         error |-> IF r.raised
                                   THEN [kind |-> "OSError", message |-> "save failed"]
                                   ELSE pending,
                         state |-> EmptyState]
    /\ pc' = "done"
    /\ UNCHANGED <<current_workflow, current_workflow_id, save_state, initial_inputs,
                   execution_order, level_num, agent_index, pending, trace, producers,
                   execution_history>>
    /\ UNCHANGED regVars
    /\ UNCHANGED execVars

Init ==
    /\ RunConfigs
    /\ workflows = NoWorkflows
    /\ regResult = "none"
    /\ planResult = NoPlan
    /\ ExecIdle
    /\ StoreIdle
    /\ RunIdle

Next ==
    \/ \E name \in WorkflowNames : RegisterWorkflow(name)
    \/ \E workflow_name \in {Wf, <<"wf", "x">>}, inputs \in InitialInputs, save \in BOOLEAN :
            StartWorkflow(workflow_name, inputs, save)
    \/ \E task \in UNION {TaskRuns(a) : a \in Range(AgentNames)} : ExecuteStep(task)
    \/ \E fault \in {"none", "write"} : CompleteWorkflow(fault)
    \/ \E fault \in {"none", "write"} : FailWorkflow(fault)

Spec == Init /\ [][Next]_vars

\* One run of a registered workflow whose steps are taken as long as there
\* are any: the loops of execute_workflow go on when a task's execute
\* returns or raises, and every task body invocation terminates.  The
\* steps declare outputs only and the caller passes no inputs.
InitLive ==
    /\ Init
    /\ \A i \in 1..Len(config) : config[i].inputs = <<>>

NextLive ==
    \/ \E name \in WorkflowNames : RegisterWorkflow(name)
    \/ \E save \in BOOLEAN : workflows # NoWorkflows /\ StartWorkflow(Wf, NoOutputs, save)
    \/ \E task \in UNION {TaskRuns(a) : a \in Range(AgentNames)} : ExecuteStep(task)
    \/ \E fault \in {"none", "write"} : CompleteWorkflow(fault)
    \/ \E fault \in {"none", "write"} : FailWorkflow(fault)

SpecLive == InitLive /\ [][NextLive]_vars /\ WF_vars(NextLive)

(***************************************************************************)
(* One run, and another execute_workflow call on the same Orchestrator     *)
(* before or during it.  Of the other call the model has what it does to   *)
(* the attributes the two calls share: self.current_workflow_id and the    *)
(* agents of self.agents.                                                  *)
(***************************************************************************)
\* The steps of this run that returned a result from agent_name.
OwnCount(agent_name) ==
    Cardinality({i \in 1..Len(trace) :
                    trace[i].agent_name = agent_name /\ trace[i].kind = "ok"})

RECURSIVE OtherCount(_)
OtherCount(names) ==
    IF names = {} THEN 0
    ELSE LET a == CHOOSE a \in names : TRUE
         IN agents[a].execution_count - OwnCount(a) + OtherCount(names \ {a})

\* Lines 135-136 of the other call, for the same workflow:
\* self.current_workflow_id = datetime.now().strftime("%Y%m%d_%H%M%S")
OtherStart ==
    /\ pc \in {"idle", "running", "failing"}
    /\ current_workflow_id' = TimeId(now)
    /\ UNCHANGED <<pc, current_workflow, save_state, initial_inputs, execution_order,
                   level_num, agent_index, workflow_state, pending, outcome, trace,
                   producers, execution_history>>
    /\ UNCHANGED regVars
    /\ UNCHANGED execVars
    /\ UNCHANGED storeVars

\* A step of the other call: self.agents[agent_name].execute(...) returns a
\* result.
OtherStep(agent_name) ==
    /\ pc \in {"idle", "running", "failing"}
    /\ agent_name \in DOMAIN agents
    /\ OtherCount(DOMAIN agents) < MaxOtherSteps
    /\ agents' = [agents EXCEPT ![agent_name] =
                     Execute(@, TRUE, <<>>, Value("dict", agent_name, FALSE, 0), TRUE,
                             OrchestratorMaxRetries, OrchestratorRetryDelay).agent]
    /\ UNCHANGED <<call, execResult>>
    /\ UNCHANGED regVars
    /\ UNCHANGED storeVars
    /\ UNCHANGED runVars

NextTwoCalls ==
    \/ Next
    \/ Tick
    \/ OtherStart
    \/ \E agent_name \in RegisteredAgents : OtherStep(agent_name)

SpecTwoCalls == Init /\ [][NextTwoCalls]_vars

(***************************************************************************)
(* The behaviours of SpecExec together with those of Spec: a caller either *)
(* calls execute on an agent directly, with arguments of its choice, or    *)
(* runs a workflow, where the orchestrator chooses the arguments.          *)
(***************************************************************************)
InitExecRun == InitExec \/ Init

NextExecRun ==
    \/ call # NoCall /\ NextExec
    \/ call = NoCall /\ Next

SpecExecRun == InitExecRun /\ [][NextExecRun]_vars

(***************************************************************************)
(* Runs of one workflow one after another on the same Orchestrator.  Each  *)
(* run is saved; its tasks are those that need no retry, so that a run     *)
(* sleeps in no backoff and takes the time that Tick lets pass.            *)
(***************************************************************************)
\* A task that rejects its inputs or returns a result on the first attempt.
QuickTasks ==
    {task \in UNION {TaskRuns(a) : a \in Range(AgentNames)} : task.script = <<>>}

\* Line 228 or 247: execute_workflow raises or returns and its locals are
\* gone; the attributes of the Orchestrator, its agents and the files stay.
ReturnToCaller ==
    /\ pc = "done"
    /\ saveResult.saves < MaxSaves
    /\ pc' = "idle"
    /\ initial_inputs' = NoOutputs
    /\ execution_order' = <<>>
    /\ level_num' = 0
    /\ agent_index' = 0
    /\ workflow_state' = EmptyState
    /\ pending' = NoError
    /\ outcome' = NoOutcome
    /\ trace' = <<>>
    /\ producers' = [k \in {} |-> [agent_name |-> "", level_num |-> 0, result |-> None]]
    /\ UNCHANGED <<current_workflow, current_workflow_id, save_state, execution_history>>
    /\ UNCHANGED regVars
    /\ UNCHANGED execVars
    /\ UNCHANGED storeVars

NextRuns ==
    \/ \E name \in WorkflowNames : RegisterWorkflow(name)
    \/ \E inputs \in InitialInputs : StartWorkflow(Wf, inputs, TRUE)
    \/ \E task \in QuickTasks : ExecuteStep(task)
    \/ CompleteWorkflow("none")
    \/ FailWorkflow("none")
    \/ ReturnToCaller
    \/ Tick

SpecRuns == Init /\ [][NextRuns]_vars

(***************************************************************************)
(* Orchestrator.execute_agent_standalone, called before or after a run of  *)
(* a workflow on the same Orchestrator.                                    *)
(***************************************************************************)
\* The workflow of the run: a critical step and a step that depends on it.
StandaloneSteps ==
    <<WorkflowStep("DataFetcher", <<>>, <<"k1">>, <<>>),
      WorkflowStep("Notifier", <<"k1">>, <<>>, <<"DataFetcher">>)>>

\* retry_delay: float = 1.0, the default of BaseAgent.execute
DefaultRetryDelay == 1

\* What the call leaves in call and execResult and does to the agent.
StandaloneCall(agent_name, task) ==
    IF agent_name \notin DOMAIN agents
    THEN /\ execResult' = [kind |-> "OrchestratorError", result |-> None,
                           invocations |-> 0, waits |-> <<>>]
         /\ UNCHANGED agents
    ELSE LET r == Execute(agents[agent_name], task.valid, task.script, task.result,
                          FALSE, 0, DefaultRetryDelay)
         IN /\ agents' = [agents EXCEPT ![agent_name] = r.agent]
            /\ execResult' = [kind |-> r.kind, result |-> r.result,
                              invocations |-> r.invocations, waits |-> r.waits]

\* execute_agent_standalone that records the call in the execution history.
ExecuteAgentStandaloneRecorded(agent_name, task) ==
    /\ pc \in {"idle", "done"}
    /\ call.calls < MaxCalls
    /\ StandaloneCall(agent_name, task)
    /\ call' = [agent_name |-> agent_name, valid |-> task.valid, script |-> task.script,
                given |-> FALSE, max_retries |-> 0, retry_delay |-> DefaultRetryDelay,
                calls |-> call.calls + 1]
    /\ execution_history' = Append(execution_history,
                                   [workflow_name |-> <<agent_name>>,
                                    workflow_id |-> current_workflow_id,
                                    status |-> execResult'.kind])
    /\ UNCHANGED <<pc, current_workflow, current_workflow_id, save_state, initial_inputs,
                   execution_order, level_num, agent_index, workflow_state, pending,
                   outcome, trace, producers>>
    /\ UNCHANGED regVars
    /\ UNCHANGED storeVars

\* execute_agent_standalone(agent_name, inputs): the agent's validate_input
\* and body treat the inputs as task says.  execute_workflow is not
\* re-entered: the call is made when no run is under way.
ExecuteAgentStandalone(agent_name, task) ==
    /\ pc \in {"idle", "done"}
    /\ call.calls < MaxCalls
    /\ StandaloneCall(agent_name, task)
    /\ call' = [agent_name |-> agent_name, valid |-> task.valid, script |-> task.script,
                given |-> FALSE, max_retries |-> 0, retry_delay |-> DefaultRetryDelay,
                calls |-> call.calls + 1]
    /\ UNCHANGED regVars
    /\ UNCHANGED storeVars
    /\ UNCHANGED runVars

InitStandalone ==
    /\ config = StandaloneSteps
    /\ workflows = NoWorkflows
    /\ regResult = "none"
    /\ planResult = NoPlan
    /\ ExecIdle
    /\ StoreIdle
    /\ RunIdle

NextStandalone ==
    \/ Next
    \/ \E agent_name \in RegisteredAgents \cup {"Ghost"} :
          \E task \in TaskRuns(agent_name) : ExecuteAgentStandalone(agent_name, task)

SpecStandalone == InitStandalone /\ [][NextStandalone]_vars

(***************************************************************************)
(* Properties of registration and planning (checked under SpecReg).        *)
(***************************************************************************)
\* The dependency relation of a step list, and what it reaches.
DepEdges(steps) ==
    UNION {{<<steps[i].agent_name, d>> : d \in Range(steps[i].depends_on)} :
              i \in 1..Len(steps)}

RECURSIVE ReachIn(_, _, _)
ReachIn(edges, from, k) ==
    IF k = 0 THEN from
    ELSE LET next == from \cup {e[2] : e \in {x \in edges : x[1] \in from}}
         IN IF next = from THEN from ELSE ReachIn(edges, next, k - 1)

DependsTransitively(steps, a) ==
    LET edges == DepEdges(steps)
    IN ReachIn(edges, {e[2] : e \in {x \in edges : x[1] = a}}, Cardinality(edges))

Cyclic(steps) ==
    \E i \in 1..Len(steps) :
        steps[i].agent_name \in DependsTransitively(steps, steps[i].agent_name)

UniqueNames(steps) ==
    \A i, j \in 1..Len(steps) : steps[i].agent_name = steps[j].agent_name => i = j

KnownDependencies(steps) ==
    \A e \in DepEdges(steps) : HasStep(steps, e[2])

LevelsOf(order, a) == {l \in 1..Len(order) : a \in Range(order[l])}

Occurrences(order, a) ==
    {<<l, p>> \in (1..Len(order)) \X (1..MaxSteps + 1) :
        p <= Len(order[l]) /\ order[l][p] = a}

\* C3: for every registered workflow get_execution_order returns levels in
\* which every step appears exactly once and strictly after (in a level
\* of greater index than) each step of its depends_on list.
C3_LevelsRespectDependencies ==
    \A w \in DOMAIN workflows :
        planResult.kind # "none" =>
            /\ planResult.kind = "ok"
            /\ \A i \in 1..Len(workflows[w]) :
                LET s == workflows[w][i]
                IN /\ Cardinality(Occurrences(planResult.order, s.agent_name)) = 1
                   /\ \A d \in Range(s.depends_on) :
                        \A ls \in LevelsOf(planResult.order, s.agent_name) :
                            \A ld \in LevelsOf(planResult.order, d) : ld < ls

C3_Witness ==
    /\ Wf \in DOMAIN workflows
    /\ planResult.kind = "ok"
    /\ Len(planResult.order) = 3
    /\ \E l \in 1..Len(planResult.order) : Len(planResult.order[l]) = 2

\* C5: a workflow whose dependency graph contains a cycle is rejected by
\* register_workflow: it is never stored and no plan is computed for it.
C5_CyclicWorkflowRejected ==
    (regResult # "none" /\ Cyclic(config)) =>
        /\ regResult # "ok"
        /\ workflows = NoWorkflows
        /\ planResult.kind \in {"none", "not_found"}

\* A rejected cycle that does not pass through the first steps visited and
\* closes behind a node two steps depend on.
C5_Witness ==
    /\ regResult = "cycle"
    /\ planResult.kind = "not_found"
    /\ Len(config) = 4
    /\ "DataFetcher" \notin DependsTransitively(config, "DataFetcher")
    /\ "Analyzer" \notin DependsTransitively(config, "Analyzer")
    /\ \E i, j \in 1..Len(config) :
        /\ i # j
        /\ "Notifier" \in Range(config[i].depends_on)
        /\ "Notifier" \in Range(config[j].depends_on)
    /\ "Notifier" \in DependsTransitively(config, "Notifier")

Diamond ==
    <<WorkflowStep("DataFetcher", <<>>, <<>>, <<>>),
      WorkflowStep("Analyzer", <<>>, <<>>, <<"DataFetcher">>),
      WorkflowStep("DecisionMaker", <<>>, <<>>, <<"DataFetcher">>),
      WorkflowStep("Notifier", <<>>, <<>>, <<"Analyzer", "DecisionMaker">>)>>

DiamondPlan == <<<<"DataFetcher">>, <<"Analyzer", "DecisionMaker">>, <<"Notifier">>>>

\* C6: every acyclic workflow with unique agent names and known dependency
\* targets is accepted by register_workflow, and the plan of the diamond is
\* [[A], [B, C], [D]].
C6_AcyclicWorkflowAccepted ==
    /\ (/\ regResult # "none"
        /\ UniqueNames(config)
        /\ KnownDependencies(config)
        /\ ~Cyclic(config))
       => (regResult = "ok" /\ Wf \in DOMAIN workflows /\ workflows[Wf] = config)
    /\ (config = Diamond /\ planResult.kind # "none")
       => (planResult.kind = "ok" /\ planResult.order = DiamondPlan)

C6_Witness ==
    /\ config = Diamond
    /\ regResult = "ok"
    /\ planResult.kind = "ok"
    /\ planResult.order = DiamondPlan

\* The largest level of order that holds one of names (0 for none).
MaxLevel(order, names) ==
    IF names = {} THEN 0
    ELSE CHOOSE l \in 0..Len(order) :
            /\ \A d \in names : \A ld \in LevelsOf(order, d) : ld <= l
            /\ l = 0 \/ \E d \in names : l \in LevelsOf(order, d)

\* C26: the plan puts every step in the earliest possible level: a step
\* without dependencies in the first, any other step in the level right
\* after the last level of its dependencies.
C26_EarliestLevel ==
    \A w \in DOMAIN workflows :
        planResult.kind = "ok" =>
            \A i \in 1..Len(workflows[w]) :
                LET s == workflows[w][i]
                IN LevelsOf(planResult.order, s.agent_name) =
                      {MaxLevel(planResult.order, Range(s.depends_on)) + 1}

\* A plan of two levels of two steps each: both steps of the second level
\* depend on a step of the first.
C26_Witness ==
    /\ Wf \in DOMAIN workflows
    /\ planResult.kind = "ok"
    /\ Len(planResult.order) = 2
    /\ Len(planResult.order[1]) = 2
    /\ Len(planResult.order[2]) = 2

\* The steps of the plan in the order the loops visit them.
RECURSIVE FlatPlan(_)
FlatPlan(order) == IF order = <<>> THEN <<>> ELSE Head(order) \o FlatPlan(Tail(order))

\* The names that can be scheduled: those all of whose dependencies can.
RECURSIVE Schedulable(_, _, _)
Schedulable(steps, S, k) ==
    LET T == S \cup {steps[i].agent_name : i \in
                       {j \in 1..Len(steps) : Range(steps[j].depends_on) \subseteq S}}
    IN IF k = 0 \/ T = S THEN S ELSE Schedulable(steps, T, k - 1)

Unscheduled(steps) ==
    LET S == Schedulable(steps, {}, Len(steps))
        Left(a) == a \notin S
    IN SelectSeq(AgentNameList(steps), Left)

C29_CycleErrorNamesAgent ==
    regResult = "cycle" =>
        \E a \in Range(RegisterMessage(Wf, config)) :
            /\ HasStep(config, a)
            /\ a \in DependsTransitively(config, a)

\* C30 (checked under SpecReReg): register_workflow rejects a step list in
\* which two steps share an agent name and one in which a depends_on entry
\* names no step of the list; a rejected registration (repeated name,
\* unknown dependency or cycle) leaves the registry as it was: the
\* definition registered before under the name is still there and is the
\* one that is planned.
C30_RejectionLeavesRegistry ==
    regResult # "none" =>
        /\ ~UniqueNames(config) => regResult # "ok"
        /\ ~KnownDependencies(config) => regResult # "ok"
        /\ Cyclic(config) => regResult # "ok"
        /\ regResult # "ok" =>
              /\ workflows = (Wf :> PriorSteps)
              /\ planResult.kind # "none" =>
                    /\ planResult.kind = "ok"
                    /\ planResult.order = <<<<"Supervisor">>, <<"Notifier">>>>
        /\ regResult = "ok" => workflows = (Wf :> config)

\* A list of three steps with a repeated name was rejected, and the plan
\* computed afterwards is the one of the definition registered before.
C30_Witness ==
    /\ regResult = "duplicate"
    /\ Len(config) = 3
    /\ workflows[Wf] = PriorSteps
    /\ planResult.kind = "ok"
    /\ planResult.order = <<<<"Supervisor">>, <<"Notifier">>>>

(***************************************************************************)
(* Properties of BaseAgent.execute (checked under SpecExec).               *)
(***************************************************************************)
OnlyRaises(script) == \A k \in 1..Len(script) : script[k] = "raise"

\* C4: with valid input and a body that raises exactly N times and then
\* succeeds, execute(max_retries = N) returns the result after N+1 body
\* invocations, execute(max_retries = N-1) raises the aggregated AgentError
\* after N invocations and returns nothing, and whenever every attempt
\* fails the body has run max_retries+1 times.
C4_RetryCount ==
    (execResult.kind # "none" /\ call.valid /\ call.given /\ OnlyRaises(call.script)) =>
        LET N == Len(call.script)
            m == call.max_retries
        IN /\ m = N => /\ execResult.kind = "ok"
                       /\ execResult.invocations = N + 1
                       /\ execResult.result = Value("dict", call.agent_name, FALSE, 0)
           /\ m = N - 1 => /\ execResult.kind = "AgentError"
                           /\ execResult.invocations = N
                           /\ execResult.result = None
           /\ m < N => /\ execResult.kind = "AgentError"
                       /\ execResult.invocations = m + 1

\* A call that succeeded on its second attempt was followed by a call that
\* gave up after two.
C4_Witness ==
    /\ call.calls = 2
    /\ agents[call.agent_name].execution_count = 1
    /\ call.valid /\ call.given /\ OnlyRaises(call.script)
    /\ Len(call.script) = 2
    /\ call.max_retries = 1
    /\ execResult.kind = "AgentError"
    /\ execResult.invocations = 2

C21_BackoffDoubles ==
    execResult.kind # "none" =>
        /\ \A k \in 0..(Len(execResult.waits) - 1) :
              execResult.waits[k + 1] = call.retry_delay * 2 ^ k
        /\ execResult.kind = "ok" =>
              Len(execResult.waits) = execResult.invocations - 1
        /\ execResult.kind = "AgentError" =>
              Len(execResult.waits) =
                  (IF execResult.invocations > 0 THEN execResult.invocations - 1 ELSE 0)
        /\ execResult.kind = "ValidationError" => execResult.waits = <<>>

\* The second call on an agent, with retry_delay 2, returned a result on its
\* third attempt after waits of 2 and 4.
C21_Witness ==
    /\ call.calls = 2
    /\ call.retry_delay = 2
    /\ execResult.kind = "ok"
    /\ execResult.invocations = 3
    /\ execResult.waits = <<2, 4>>

\* C22: execution_count, last_execution_time and last_result of an agent
\* change only when execute returns a result: the count grows by exactly 1
\* whatever the number of attempts, and a call that ends in ValidationError
\* or AgentError leaves all three as they were; no other agent changes.
C22_CountersOnlyOnResult ==
    [][call'.calls = call.calls + 1 =>
          LET a == call'.agent_name
          IN /\ execResult'.kind = "ok" =>
                   /\ agents'[a].execution_count = agents[a].execution_count + 1
                   /\ agents'[a].last_execution_time # NoDuration
                   /\ agents'[a].last_result = execResult'.result
             /\ execResult'.kind \in {"ValidationError", "AgentError"} =>
                   agents'[a] = agents[a]
             /\ execResult'.kind \in {"ok", "ValidationError", "AgentError"}
             /\ \A b \in DOMAIN agents \ {a} : agents'[b] = agents[b]
      ]_vars

\* A first call returned a result on its third attempt and a second call
\* gave up: the count is 1.
C22_Witness ==
    /\ call.calls = 2
    /\ call.valid
    /\ execResult.kind = "AgentError"
    /\ execResult.invocations > 1
    /\ agents[call.agent_name].execution_count = 1
    /\ agents[call.agent_name].last_execution_time # NoDuration
    /\ agents[call.agent_name].last_result = Value("dict", call.agent_name, FALSE, 0)

(***************************************************************************)
(* Properties of StateManager (checked under SpecStore).                   *)
(***************************************************************************)
\* The values json.load gives back as the Python type that was written.
JsonNative(state) ==
    \A k \in DOMAIN state.outputs : state.outputs[k].kind \in {"none", "str", "list", "dict"}

\* C9 as stated: load_state(workflow_name, run_id) after a save_state to the
\* same location, with no save to it in between, returns a state equal
\* field for field to the one saved, for every RunState.
C9_RoundTripEveryState ==
    (loaded.kind = "state" /\ loaded.workflow_id # NoId /\ loaded.expected.ok) =>
        loaded.state = loaded.expected.state

\* C9 as amended: the same, for every RunState whose namespace values are
\* of the types JSON distinguishes (None, strings, lists, dictionaries).
C9_RoundTripJsonNative ==
    (/\ loaded.kind = "state"
     /\ loaded.workflow_id # NoId
     /\ loaded.expected.ok
     /\ JsonNative(loaded.expected.state)) =>
        loaded.state = loaded.expected.state

\* A completed run with a list in its namespace was saved over an earlier
\* snapshot and loaded back.
C9_Witness ==
    /\ loaded.kind = "state"
    /\ loaded.workflow_id = <<"r1">>
    /\ loaded.expected.ok
    /\ saveResult.saves = 2
    /\ loaded.state.status = "completed"
    /\ loaded.state.conditional_branch = "normal"
    /\ loaded.workflow_name = Wf
    /\ FileName(Wf, <<"r1">>) \in DOMAIN files
    /\ files[FileName(Wf, <<"r1">>)].timestamp = 1
    /\ "location" \in DOMAIN loaded.state.outputs
    /\ loaded.state.outputs["location"].kind = "list"
    /\ loaded.state = loaded.expected.state

(***************************************************************************)
(* Properties of execute_workflow (checked under Spec).                    *)
(***************************************************************************)
PlanIndex(agent_name) ==
    CHOOSE j \in 1..Len(FlatPlan(execution_order)) :
        FlatPlan(execution_order)[j] = agent_name

\* The steps that come after agent_name in the plan.
LaterSteps(agent_name) ==
    {FlatPlan(execution_order)[j] :
        j \in (PlanIndex(agent_name) + 1)..Len(FlatPlan(execution_order))}

CriticalSet == {"DataFetcher", "Analyzer"}

Recorded == Range(workflow_state.completed_agents) \cup Range(workflow_state.failed_agents)

\* Turn i of the run ended with the retries of a critical step exhausted.
CriticalExhausted(i) ==
    trace[i].kind = "AgentError" /\ trace[i].agent_name \in CriticalSet

\* Turn i of the run ended with the retries of a non-critical step exhausted.
NonCriticalExhausted(i) ==
    trace[i].kind = "AgentError" /\ trace[i].agent_name \notin CriticalSet

\* C1: when a step of the critical set (DataFetcher, Analyzer) exhausts its
\* retries, it is the last step the run executes, the run leaves the loops
\* and ends with status failed, and no step later in the plan is in the
\* completed or the failed list.
C1_CriticalFailureAborts ==
    \A i \in 1..Len(trace) :
        CriticalExhausted(i) =>
            /\ i = Len(trace)
            /\ pc \in {"failing", "done"}
            /\ pc = "done" => workflow_state.status = "failed"
            /\ LaterSteps(trace[i].agent_name) \cap Recorded = {}

\* A run ended after a critical step exhausted its retries, with a step
\* that depends on it left in a later level of the plan.
C1_Witness ==
    /\ pc = "done"
    /\ Len(trace) >= 1
    /\ CriticalExhausted(Len(trace))
    /\ trace[Len(trace)].invocations = OrchestratorMaxRetries + 1
    /\ Len(execution_order) > trace[Len(trace)].level_num
    /\ LaterSteps(trace[Len(trace)].agent_name) # {}
    /\ workflow_state.status = "failed"

\* C2: when a non-critical step exhausts its retries it is in the failed
\* list, and unless a critical step fails the run goes on to attempt every
\* later step of the plan and ends with status completed.
C2_NonCriticalFailureTolerated ==
    \A i \in 1..Len(trace) :
        NonCriticalExhausted(i) =>
            /\ trace[i].agent_name \in Range(workflow_state.failed_agents)
            /\ (/\ pc = "done"
                /\ Range(workflow_state.failed_agents) \cap CriticalSet = {})
               => /\ \A a \in LaterSteps(trace[i].agent_name) :
                        \E m \in 1..Len(trace) : trace[m].agent_name = a
                  /\ workflow_state.status = "completed"

\* C7: a step is passed the value of a namespace key only if it declares
\* the key as an input and the key was written in an earlier level (or is
\* an initial input), and the value is the one its producer wrote.
C7_InputsFromEarlierLevels ==
    \A i \in 1..Len(trace) :
        \A k \in DOMAIN trace[i].inputs :
            /\ k \in Range(FindStep(workflows[current_workflow], trace[i].agent_name).inputs)
            /\ trace[i].sources[k].level_num < trace[i].level_num
            /\ trace[i].inputs[k] = trace[i].sources[k].result

\* C8: during a run no step changes the value of a key the namespace
\* already has.
C8_NamespaceAppendOnly ==
    [][pc = "running" =>
          \A k \in DOMAIN workflow_state.outputs :
              /\ k \in DOMAIN workflow_state'.outputs
              /\ workflow_state'.outputs[k] = workflow_state.outputs[k]]_vars

\* C10: when the save at the end of a run fails, a run that completed
\* returns its completed state and a run that failed raises the error that
\* made it fail.
C10_SaveFailureKeepsOutcome ==
    (pc = "done" /\ saveResult.kind = "raised") =>
        /\ workflow_state.status = "completed" =>
              /\ outcome.kind = "returned"
              /\ outcome.state = workflow_state
        /\ workflow_state.status = "failed" =>
              /\ outcome.kind = "raised"
              /\ outcome.error = pending

\* C11: execute_workflow hands the final workflow state to its caller for
\* every terminal outcome, a failed run included (the final save having
\* succeeded or not been asked for).
C11_FinalStateReturned ==
    (/\ pc = "done"
     /\ workflow_state.status \in {"completed", "failed"}
     /\ saveResult.kind # "raised") =>
        /\ outcome.kind = "returned"
        /\ outcome.state = workflow_state

\* C12: the status of a run moves only from running to completed or to
\* failed; once it is completed or failed it never changes, and no step
\* executes after that.
C12_StatusTerminal ==
    [][/\ workflow_state.status = "" => workflow_state'.status \in {"", "running"}
       /\ workflow_state.status = "running" =>
             workflow_state'.status \in {"running", "completed", "failed"}
       /\ workflow_state.status \in {"completed", "failed"} =>
             /\ workflow_state'.status = workflow_state.status
             /\ trace' = trace
             /\ agents' = agents]_vars

\* A run was marked completed and its final save raised.
C12_Witness ==
    /\ pc = "done"
    /\ workflow_state.status = "completed"
    /\ Len(trace) = 2
    /\ saveResult.kind = "raised"
    /\ outcome.kind = "raised"

\* C13: when a step starts, every step of its depends_on list has a
\* recorded outcome (it is in the completed or the failed list) and was
\* run in an earlier level.
C13_DependenciesRecordedFirst ==
    \A i \in 1..Len(trace) :
        \A d \in Range(FindStep(workflows[current_workflow], trace[i].agent_name).depends_on) :
            /\ d \in Recorded
            /\ \E j \in 1..(i - 1) :
                  /\ trace[j].agent_name = d
                  /\ trace[j].kind \in {"ok", "AgentError", "ValidationError"}
                  /\ trace[j].level_num < trace[i].level_num

\* A step ran in the second level after the step it depends on, declared
\* after it, had failed in the first.
C13_Witness ==
    /\ Len(trace) = 2
    /\ trace[1].kind = "AgentError"
    /\ trace[2].kind = "ok"
    /\ trace[1].level_num = 1
    /\ trace[2].level_num = 2
    /\ workflows[current_workflow][1].agent_name = trace[2].agent_name
    /\ workflows[current_workflow][1].depends_on = <<trace[1].agent_name>>

(***************************************************************************)
(* Properties of the snapshots of StateManager (checked under SpecStore).  *)
(***************************************************************************)
\* The readable files that hold a snapshot of workflow_name.
SnapshotsOf(workflow_name) ==
    {f \in DOMAIN files : files[f].readable /\ files[f].workflow_name = workflow_name}

\* C16: load_state without a run id returns the snapshot of that workflow
\* with the most recent timestamp, never one of another workflow, and an
\* empty state when the workflow has no snapshot.
C16_LoadLatestOfWorkflow ==
    (loaded.kind = "state" /\ loaded.workflow_id = NoId) =>
        IF SnapshotsOf(loaded.workflow_name) = {}
        THEN loaded.state = EmptyState
        ELSE \E f \in SnapshotsOf(loaded.workflow_name) :
                /\ \A g \in SnapshotsOf(loaded.workflow_name) :
                       files[g].timestamp <= files[f].timestamp
                /\ loaded.state = ParseState(files[f].state)

\* C17: when a save_state call fails, a snapshot saved before at the same
\* location is intact: loading that run id returns the state saved before.
C17_FailedSaveKeepsSnapshot ==
    (/\ loaded.kind = "state"
     /\ loaded.workflow_id # NoId
     /\ loaded.expected.saved
     /\ ~loaded.expected.ok
     /\ JsonNative(loaded.expected.state)) =>
        loaded.state = loaded.expected.state

\* The readable files list_saved_states is asked for: those of one workflow,
\* or all of them.
Listed(workflow_name) ==
    {f \in DOMAIN files :
        /\ files[f].readable
        /\ workflow_name # NoName => files[f].workflow_name = workflow_name}

\* C18 (checked under SpecList): list_saved_states returns one summary
\* (workflow name, run id, timestamp, location) per readable snapshot asked
\* for, newest first by timestamp, with and without a workflow name.
C18_ListNewestFirst ==
    loaded.kind = "list" =>
        LET S == loaded.summaries
        IN /\ {S[i].filepath : i \in 1..Len(S)} = Listed(loaded.workflow_name)
           /\ Len(S) = Cardinality(Listed(loaded.workflow_name))
           /\ \A i \in 1..Len(S) :
                 /\ S[i].workflow_name = files[S[i].filepath].workflow_name
                 /\ S[i].workflow_id = files[S[i].filepath].workflow_id
                 /\ S[i].timestamp = files[S[i].filepath].timestamp
           /\ \A i, j \in 1..Len(S) : i < j => S[i].timestamp >= S[j].timestamp

\* C23: the inputs passed to a step's task are the step's declared input
\* keys that are in the namespace when the step starts, each with the value
\* the namespace has for it; a declared key that is absent is left out and
\* the task is called all the same, and no undeclared key is passed.
C23_InputsGathered ==
    [][(/\ pc = "running"
        /\ Len(trace') = Len(trace) + 1
        /\ trace'[Len(trace')].agent_name \in DOMAIN agents
        /\ HasStep(workflows[current_workflow], trace'[Len(trace')].agent_name)) =>
          LET e == trace'[Len(trace')]
              step == FindStep(workflows[current_workflow], e.agent_name)
          IN /\ e.kind \in {"ok", "AgentError", "ValidationError"}
             /\ DOMAIN e.inputs = Range(step.inputs) \cap DOMAIN workflow_state.outputs
             /\ \A k \in DOMAIN e.inputs : e.inputs[k] = workflow_state.outputs[k]
      ]_vars

\* The second step of a run declared k1 and k2 and nothing had written k2:
\* its task was called with k1 alone and returned a result, while the
\* namespace held another key as well.
C23_Witness ==
    /\ Len(trace) = 2
    /\ trace[2].kind = "ok"
    /\ HasStep(workflows[current_workflow], trace[2].agent_name)
    /\ FindStep(workflows[current_workflow], trace[2].agent_name).inputs = <<"k1", "k2">>
    /\ DOMAIN trace[2].inputs = {"k1"}
    /\ trace[1].kind = "ok"
    /\ DefaultKey(trace[1].agent_name) \in DOMAIN workflow_state.outputs

\* C24: after a step succeeds every output key it declares maps to the
\* step's result; if it declares none, the one key made of the lower-cased
\* agent name and '_output' does; no other key of the namespace changes, and
\* the agent name is appended to the completed list.
C24_OutputsStored ==
    [][(/\ pc = "running"
        /\ Len(trace') = Len(trace) + 1
        /\ trace'[Len(trace')].kind = "ok") =>
          LET e == trace'[Len(trace')]
              step == FindStep(workflows[current_workflow], e.agent_name)
              keys == IF step.outputs = <<>> THEN {DefaultKey(e.agent_name)}
                      ELSE Range(step.outputs)
          IN /\ DOMAIN workflow_state'.outputs = DOMAIN workflow_state.outputs \cup keys
             /\ \A k \in keys : workflow_state'.outputs[k] = e.result
             /\ \A k \in DOMAIN workflow_state.outputs \ keys :
                   workflow_state'.outputs[k] = workflow_state.outputs[k]
             /\ workflow_state'.completed_agents =
                   Append(workflow_state.completed_agents, e.agent_name)
             /\ workflow_state'.failed_agents = workflow_state.failed_agents
      ]_vars

\* A step that declares k1 and k2 and a step that declares no outputs both
\* succeeded, in a run that was given k1 by its caller.
C24_Witness ==
    /\ Len(trace) = 2
    /\ trace[1].kind = "ok" /\ trace[2].kind = "ok"
    /\ FindStep(workflows[current_workflow], trace[1].agent_name).outputs = <<"k1", "k2">>
    /\ FindStep(workflows[current_workflow], trace[2].agent_name).outputs = <<>>
    /\ "k1" \in DOMAIN initial_inputs
    /\ DOMAIN workflow_state.outputs = {"k1", "k2", DefaultKey(trace[2].agent_name)}
    /\ workflow_state.outputs["k1"] = trace[1].result
    /\ workflow_state.outputs[DefaultKey(trace[2].agent_name)] = trace[2].result
    /\ workflow_state.completed_agents = <<trace[1].agent_name, trace[2].agent_name>>

\* C25: conditional_branch is set only by a successful Analyzer step whose
\* result carries a news sentiment, to critical_alert when the score is
\* below -0.5, to heightened_monitoring when it is below -0.3, to normal
\* otherwise; that step leaves the plan, the status and the failed list as
\* they are, changes the namespace and the completed list as any successful
\* step does, and the run goes on to the next step of the plan.
C25_ConditionalBranchAdvisory ==
    [][LET e == trace'[Len(trace')]
           analyzed == /\ pc = "running"
                       /\ Len(trace') = Len(trace) + 1
                       /\ e.agent_name = "Analyzer"
                       /\ e.kind = "ok"
       IN /\ IF analyzed /\ e.result.news
             THEN workflow_state'.conditional_branch =
                     (IF e.result.score < -5 THEN "critical_alert"
                      ELSE IF e.result.score < -3 THEN "heightened_monitoring"
                      ELSE "normal")
             ELSE workflow_state'.conditional_branch = workflow_state.conditional_branch
          /\ analyzed =>
                /\ execution_order' = execution_order
                /\ pc' = "running"
                /\ [workflow_state' EXCEPT
                        !.conditional_branch = workflow_state.conditional_branch,
                        !.outputs = workflow_state.outputs,
                        !.completed_agents = workflow_state.completed_agents]
                      = workflow_state
                /\ workflow_state'.completed_agents =
                      Append(workflow_state.completed_agents, "Analyzer")
                /\ \A k \in DOMAIN workflow_state'.outputs :
                      \/ workflow_state'.outputs[k] = e.result
                      \/ /\ k \in DOMAIN workflow_state.outputs
                         /\ workflow_state'.outputs[k] = workflow_state.outputs[k]
                /\ IF agent_index < Len(execution_order[level_num])
                   THEN level_num' = level_num /\ agent_index' = agent_index + 1
                   ELSE level_num' = level_num + 1 /\ agent_index' = 1
      ]_vars

\* A run completed with the branch heightened_monitoring: its Analyzer step
\* returned a news sentiment of -0.5 and the step after it succeeded.
C25_Witness ==
    /\ pc = "done"
    /\ workflow_state.status = "completed"
    /\ workflow_state.conditional_branch = "heightened_monitoring"
    /\ Len(trace) = 2
    /\ trace[1].agent_name = "Analyzer"
    /\ trace[1].kind = "ok"
    /\ trace[1].result.news
    /\ trace[1].result.score = -5
    /\ trace[2].kind = "ok"

\* The place of agent_name in the declaration of steps.
StepIndex(steps, agent_name) ==
    CHOOSE i \in 1..Len(steps) : steps[i].agent_name = agent_name

\* C27: in every level of the plan of a run the agent names are in the
\* order the workflow declares them; the run executes the steps in the
\* order of the plan; computing the plan again at any time of the run gives
\* the same levels, and the registered workflow is still the one that was
\* registered.
C27_DeclarationOrder ==
    workflow_state.status # "" =>
        LET steps == workflows[current_workflow]
        IN /\ \A l \in 1..Len(execution_order) :
                 \A p, q \in 1..Len(execution_order[l]) :
                     p < q => StepIndex(steps, execution_order[l][p])
                                < StepIndex(steps, execution_order[l][q])
           /\ Len(trace) <= Len(FlatPlan(execution_order))
           /\ \A i \in 1..Len(trace) :
                 trace[i].agent_name = FlatPlan(execution_order)[i]
           /\ GetExecutionOrder(workflows, current_workflow).kind = "ok"
           /\ GetExecutionOrder(workflows, current_workflow).order = execution_order
           /\ steps = config

\* A run completed whose plan has one level of two steps, executed in the
\* order they are declared in.
C27_Witness ==
    /\ pc = "done"
    /\ workflow_state.status = "completed"
    /\ Len(execution_order) = 1
    /\ Len(execution_order[1]) = 2
    /\ Len(trace) = 2
    /\ trace[1].agent_name = config[1].agent_name
    /\ trace[2].agent_name = config[2].agent_name

\* C15: a run that ends with a scheduling failure (workflow not found, or
\* a step whose agent is not registered) has invoked no task body and has
\* written nothing to its outputs.
C15_SchedulingFailureBeforeAnyStep ==
    (/\ pc \in {"failing", "done"}
     /\ \/ pending.message = "Unknown agent"
        \/ outcome.kind = "raised" /\ outcome.error.message = "Workflow not found") =>
        /\ \A i \in 1..Len(trace) : trace[i].invocations = 0
        /\ pending.message = "Unknown agent" =>
              /\ workflow_state.outputs = initial_inputs
              /\ workflow_state.completed_agents = <<>>

(***************************************************************************)
(* Properties of two calls of execute_workflow (checked under              *)
(* SpecTwoCalls).                                                          *)
(***************************************************************************)
\* C19: a run is not affected by another execute_workflow call on the same
\* Orchestrator: the counters of the agents count the steps of this run
\* only, and the run is saved under the run id assigned at its own start.
C19_RunsIsolated ==
    /\ pc \in {"running", "failing", "done"} =>
          \A a \in DOMAIN agents : agents[a].execution_count = OwnCount(a)
    /\ (pc = "done" /\ saveResult.kind = "saved") =>
          saveResult.filepath =
              FileName(current_workflow, TimeId(workflow_state.start_time))

(***************************************************************************)
(* Properties of execute inside and outside a run (checked under           *)
(* SpecExecRun).                                                           *)
(***************************************************************************)
\* C14: when validate_input fails, execute raises ValidationError with no
\* body invocation and no wait, whatever max_retries is; in a run the step
\* is put in the failed list, and the run is aborted by it exactly when the
\* step is critical.
C14_ValidationFailureNotRetried ==
    /\ (call.calls > 0 /\ ~call.valid) =>
          /\ execResult.kind = "ValidationError"
          /\ execResult.invocations = 0
          /\ execResult.waits = <<>>
    /\ \A i \in 1..Len(trace) :
          trace[i].kind = "ValidationError" =>
              /\ trace[i].invocations = 0
              /\ trace[i].agent_name \in Range(workflow_state.failed_agents)
              /\ trace[i].agent_name \notin Range(workflow_state.completed_agents)
              /\ trace[i].agent_name \in CriticalSet =>
                    (i = Len(trace) /\ pc \in {"failing", "done"}
                     /\ (pc = "done" => workflow_state.status = "failed"))
              /\ (trace[i].agent_name \notin CriticalSet /\ i = Len(trace)) =>
                    pc \in {"running", "done"}
              /\ (/\ trace[i].agent_name \notin CriticalSet
                  /\ trace[Len(trace)].kind # "OrchestratorError"
                  /\ Range(workflow_state.failed_agents) \cap CriticalSet = {}
                  /\ pc = "done") => workflow_state.status = "completed"

\* A run completed after validate_input refused the inputs of its first,
\* non-critical step and the second step succeeded.
C14_Witness ==
    /\ pc = "done"
    /\ Len(trace) = 2
    /\ trace[1].kind = "ValidationError"
    /\ trace[1].agent_name \notin CriticalSet
    /\ trace[2].kind = "ok"
    /\ workflow_state.status = "completed"
    /\ workflow_state.failed_agents = <<trace[1].agent_name>>


(***************************************************************************)
(* Properties of the registry over registrations, plans and runs.          *)
(***************************************************************************)
\* C31 (checked under SpecReReg): once a workflow is registered under a
\* name, no later operation (register_workflow with the same name,
\* get_execution_order) changes the steps stored under that name.
C31_DefinitionImmutable ==
    [][\A name \in DOMAIN workflows :
          /\ name \in DOMAIN workflows'
          /\ workflows'[name] = workflows[name]]_vars


(***************************************************************************)
(* Properties of the end of a run (checked under Spec).                    *)
(***************************************************************************)
\* C32, as claimed: every run that reached the status running ends with
\* exactly one save_state call, of its final state.
C32_AlwaysOneSave ==
    (pc = "done" /\ workflow_state.status # "") => saveResult.saves = 1

\* C32, amended: a run makes no save_state call before it ends; a run that
\* reached the status running ends completed or failed, and when it was
\* started with save_state set it ends with exactly one save_state call,
\* for the file of its workflow and run id; when that call returned, the
\* file holds the final state of the run, with its terminal status.  A run
\* started without save_state makes no save_state call at all.
C32_OneSaveWhenEnabled ==
    LET f == FileName(current_workflow, current_workflow_id)
    IN /\ pc \in {"idle", "running", "failing"} => saveResult.saves = 0
       /\ (pc = "done" /\ workflow_state.status # "") =>
             /\ workflow_state.status \in {"completed", "failed"}
             /\ saveResult.saves = IF save_state THEN 1 ELSE 0
             /\ ~save_state => files = NoFiles
             /\ save_state => saveResult.filepath = f
             /\ saveResult.kind = "saved" =>
                   /\ f \in DOMAIN files
                   /\ files[f].readable
                   /\ files[f].state.status = workflow_state.status
                   /\ ParseState(files[f].state) =
                          [workflow_state EXCEPT !.state_file = <<>>]

\* A run with a completed and a failed step was aborted and its failed
\* state was saved.
C32_Witness ==
    LET f == FileName(current_workflow, current_workflow_id)
    IN /\ pc = "done"
       /\ save_state
       /\ workflow_state.status = "failed"
       /\ Len(workflow_state.completed_agents) = 1
       /\ saveResult.kind = "saved"
       /\ saveResult.saves = 1
       /\ f \in DOMAIN files
       /\ files[f].readable
       /\ files[f].state.status = "failed"


(***************************************************************************)
(* Properties of execute_agent_standalone (checked under SpecStandalone).  *)
(***************************************************************************)
\* C33: execute_agent_standalone on a known agent calls that agent's
\* execute with the caller's inputs (rejected inputs raise at once, accepted
\* ones reach the body, retried as the agent's own defaults say) and
\* consults no plan; it leaves the workflow registry, the execution history
\* and the state store as they were, and the state of a finished run too.
\* For an unknown agent name it raises an OrchestratorError and no task
\* body runs.
C33_StandaloneBypassesPlan ==
    [][call'.calls = call.calls + 1 =>
          /\ workflows' = workflows
          /\ planResult' = planResult
          /\ execution_history' = execution_history
          /\ files' = files
          /\ journal' = journal
          /\ saveResult' = saveResult
          /\ workflow_state' = workflow_state
          /\ trace' = trace
          /\ IF call'.agent_name \in RegisteredAgents
             THEN /\ execResult'.kind \in {"ok", "ValidationError", "AgentError"}
                  /\ execResult'.kind = "ValidationError" <=> ~call'.valid
                  /\ call'.valid =>
                        execResult'.invocations =
                            Min(Len(call'.script) + 1, DefaultMaxRetries + 1)
                  /\ ~call'.valid => execResult'.invocations = 0
                  /\ \A a \in RegisteredAgents \ {call'.agent_name} :
                        agents'[a] = agents[a]
                  /\ agents'[call'.agent_name].execution_count =
                        agents[call'.agent_name].execution_count +
                            (IF execResult'.kind = "ok" THEN 1 ELSE 0)
             ELSE /\ execResult'.kind = "OrchestratorError"
                  /\ execResult'.invocations = 0
                  /\ agents' = agents]_vars

\* After a completed and saved run, Notifier was executed standalone and
\* returned a result on its second attempt.
C33_Witness ==
    /\ call.calls >= 1
    /\ call.agent_name = "Notifier"
    /\ execResult.kind = "ok"
    /\ execResult.invocations = 2
    /\ Wf \in DOMAIN workflows
    /\ Len(execution_history) = 1
    /\ files # NoFiles
    /\ agents["Notifier"].execution_count = 2


\* Whether a list holds no name twice.
NoRepeats(names) == Cardinality(Range(names)) = Len(names)

\* C34: in every state of a run the completed list and the failed list
\* share no name and hold no name twice, both hold steps of the plan only,
\* the completed list follows the order of the plan, and when the run ends
\* completed the two lists together hold exactly the steps of the workflow.
C34_ListsPartitionSteps ==
    workflow_state.status # "" =>
        LET done == workflow_state.completed_agents
            failed == workflow_state.failed_agents
            plan == FlatPlan(execution_order)
        IN /\ Range(done) \cap Range(failed) = {}
           /\ NoRepeats(done)
           /\ NoRepeats(failed)
           /\ Range(done) \cup Range(failed) \subseteq Range(plan)
           /\ \A i, j \in 1..Len(done) :
                 i < j =>
                    \E p, q \in 1..Len(plan) :
                        p < q /\ plan[p] = done[i] /\ plan[q] = done[j]
           /\ workflow_state.status = "completed" =>
                 Range(done) \cup Range(failed) =
                     Range(AgentNameList(workflows[current_workflow]))

\* A run of two steps ended completed with the first step in the completed
\* list and the second, which depends on it, in the failed list.
C34_Witness ==
    /\ pc = "done"
    /\ workflow_state.status = "completed"
    /\ Len(execution_order) = 2
    /\ Len(workflow_state.completed_agents) = 1
    /\ Len(workflow_state.failed_agents) = 1
    /\ workflow_state.completed_agents[1] = execution_order[1][1]
    /\ workflow_state.failed_agents[1] = execution_order[2][1]


CriticalFailures ==
    {i \in 1..Len(workflow_state.failed_agents) :
        workflow_state.failed_agents[i] \in CriticalSet}

\* C36: a run that ends completed has no critical agent in its failed
\* list; a run aborted by the failure of an agent has exactly one, as the
\* last entry of the list; and once a critical agent is in the failed list
\* its failure is the last step outcome recorded: the run is being failed
\* or has failed, and the last turn of the loop was that agent's.
C36_CriticalFailureLast ==
    workflow_state.status # "" =>
        LET failed == workflow_state.failed_agents
        IN /\ workflow_state.status = "completed" => CriticalFailures = {}
           /\ pending.message = "Critical agent failed" =>
                 CriticalFailures = {Len(failed)} /\ failed # <<>>
           /\ CriticalFailures # {} =>
                 /\ CriticalFailures = {Len(failed)}
                 /\ pc \in {"failing", "done"}
                 /\ workflow_state.status \in {"running", "failed"}
                 /\ pc = "done" => workflow_state.status = "failed"
                 /\ pending.message = "Critical agent failed"
                 /\ trace # <<>>
                 /\ trace[Len(trace)].agent_name = failed[Len(failed)]
                 /\ trace[Len(trace)].kind \in {"ValidationError", "AgentError"}

\* A run was aborted by the failure of Analyzer after a non-critical step
\* had failed: the failed list holds both, Analyzer last.
C36_Witness ==
    /\ pc = "done"
    /\ workflow_state.status = "failed"
    /\ Len(workflow_state.failed_agents) = 2
    /\ workflow_state.failed_agents[1] \notin CriticalSet
    /\ workflow_state.failed_agents[2] = "Analyzer"
    /\ pending.message = "Critical agent failed"


(***************************************************************************)
(* Properties of successive runs (checked under SpecRuns).                 *)
(***************************************************************************)
\* C37: two runs of the same workflow never have the same run id, and the
\* save of a later run never overwrites the snapshot of an earlier run.
C37_RunsNeverShareSnapshot ==
    [][/\ \A i, j \in 1..Len(execution_history') :
             (/\ i # j
              /\ execution_history'[i].workflow_name =
                    execution_history'[j].workflow_name) =>
                 execution_history'[i].workflow_id # execution_history'[j].workflow_id
       /\ \A f \in DOMAIN files :
             files[f].readable => f \in DOMAIN files' /\ files'[f] = files[f]
      ]_vars


(***************************************************************************)
(* Termination of a run (checked under SpecLive).                          *)
(***************************************************************************)
\* The task body invocations of the turns of tr.
RECURSIVE BodyInvocations(_)
BodyInvocations(tr) ==
    IF tr = <<>> THEN 0 ELSE Head(tr).invocations + BodyInvocations(Tail(tr))

\* C38: every execute_workflow call on a registered workflow ends, with
\* status completed or failed; in every state of the run each step's
\* execute was called at most once, and the task bodies were invoked at
\* most (number of steps) * (max_retries + 1) times in all.
C38_RunTerminates ==
    /\ (pc = "running") ~> (pc = "done")
    /\ [](workflow_state.status # "" =>
            /\ pc = "done" => workflow_state.status \in {"completed", "failed"}
            /\ \A i, j \in 1..Len(trace) :
                  trace[i].agent_name = trace[j].agent_name => i = j
            /\ Len(trace) <= Len(workflows[current_workflow])
            /\ BodyInvocations(trace) <=
                  Len(workflows[current_workflow]) * (OrchestratorMaxRetries + 1))

\* A run of two steps ended after both tasks had failed on every attempt:
\* the bodies were invoked 2 * (3 + 1) times.
C38_Witness ==
    /\ pc = "done"
    /\ workflow_state.status = "failed"
    /\ Len(workflows[current_workflow]) = 2
    /\ Len(trace) = 2
    /\ BodyInvocations(trace) = 2 * (OrchestratorMaxRetries + 1)

====
